---------------------------- MODULE Spec2Model ----------------------------
(***************************************************************************)
(* Agent-pattern strategy engine (skills/agent-patterns/templates/rust).   *)
(*                                                                         *)
(* Each strategy is modelled as the state machine its code runs:           *)
(*   Orchestrator            orchestrator_workers.rs                       *)
(*   SectioningParallelizer  parallelization.rs                            *)
(*   VotingParallelizer      parallelization.rs  (vote, safety_vote)       *)
(*   GuardrailsParallelizer  parallelization.rs                            *)
(*   EvaluatorOptimizer      evaluator_optimizer.rs                        *)
(*   AutonomousAgent         autonomous_agent.rs                           *)
(*   Router                  routing.rs                                    *)
(*   PromptChain             prompt_chaining.rs                            *)
(* The completion service is the environment: every call to it either      *)
(* returns a text (drawn from a small set of response classes) or fails.   *)
(* One specification per strategy (SpecOrch, SpecFan, ...) runs one        *)
(* invocation of that strategy; the other strategies stay in their         *)
(* initial state.                                                          *)
(***************************************************************************)
EXTENDS Integers, Sequences, FiniteSets, TLC

VARIABLES
    \* ---- Orchestrator::execute (orchestrator_workers.rs) ----
    o_pc,              \* position in execute
    o_workers,         \* keys of self.workers
    o_response,        \* the decomposition `response`
    o_subtasks,        \* `subtasks` returned by decompose_task
    o_sorted,          \* `sorted_subtasks`
    o_results,         \* keys of `results`: ids whose worker returned Ok
    o_worker_results,  \* `worker_results`
    o_calls,           \* history: one entry per Worker::execute call
    o_synth_calls,     \* history: number of synthesize_results calls
    o_synth_results,   \* history: the `results` handed to synthesize_results
    o_error,           \* the Err execute returned, if any
    \* ---- SectioningParallelizer::execute_parallel (parallelization.rs) ----
    f_pc,              \* position in execute_parallel
    f_subtasks,        \* the submitted `subtasks` (their names)
    f_handles,         \* `handles`: one spawned unit per subtask
    f_finish_order,    \* history: the order in which the units finished
    f_returned,        \* the Vec<SubtaskResult> returned
    \* ---- VotingParallelizer::vote (parallelization.rs) ----
    v_pc,              \* position in vote
    v_option_count,    \* options.len()
    v_handles,         \* `handles`: one spawned unit per voter
    v_result,          \* the VotingResult returned
    \* ---- GuardrailsParallelizer::execute_with_guardrails ----
    g_pc,              \* position in execute_with_guardrails
    g_main,            \* `main_handle`: the primary task's unit
    g_handles,         \* `guardrail_handles`: one spawned unit per check
    g_result,          \* the GuardrailedResult returned
    \* ---- EvaluatorOptimizer::optimize (evaluator_optimizer.rs) ----
    e_pc,              \* position in optimize
    e_max_iterations,  \* argument max_iterations
    e_threshold,       \* argument score_threshold, in hundredths
    e_i,               \* the loop variable i
    e_current_output,  \* `current_output`
    e_last_evaluation, \* `last_evaluation`
    e_history,         \* `self.history`
    e_gen_calls,       \* history: the prompt of every generate call
    e_eval_calls,      \* history: number of evaluate calls
    e_result,          \* the OptimizationResult returned
    e_error,           \* how optimize ended other than by returning Ok
    \* ---- AutonomousAgent::run_with_stop (autonomous_agent.rs) ----
    a_pc,              \* position in run_with_stop
    a_max_steps,       \* argument max_steps
    a_should_stop,     \* argument should_stop
    a_total_steps,     \* state.total_steps
    a_tool_calls,      \* state.tool_calls
    a_action_history,  \* state.action_history
    a_is_complete,     \* state.is_complete
    a_final_result,    \* state.final_result
    a_conversation,    \* conversation_history
    a_completion_calls,   \* history: number of completion calls made
    a_tool_invocations,   \* history: the tool handlers invoked and what each returned
    a_response,        \* `response`: the text of the latest completion
    a_result,          \* the AgentResult returned
    a_error,           \* how run_with_stop ended other than by returning Ok
    \* ---- Router::route (routing.rs) ----
    r_pc,              \* position in route
    r_routes,          \* keys of self.routes
    r_fallback,        \* self.fallback.is_some()
    r_threshold,       \* argument confidence_threshold, in hundredths
    r_classification,  \* `classification`
    r_response,        \* history: what the classifier's response carried
    r_target,          \* the handler route is awaiting
    r_invoked,         \* history: the handlers invoked, in order
    r_result,          \* the Ok((result, classification)) returned
    r_error,           \* the Err route returned, if any
    \* ---- PromptChain::execute (prompt_chaining.rs) ----
    c_pc,              \* position in execute
    c_steps,           \* self.steps
    c_k,               \* index of the step the loop is at
    c_context,         \* `context`
    c_current_output,  \* `current_output`
    c_history,         \* self.history
    c_prompts,         \* history: the prompt built for each step, in order
    c_calls,           \* history: the step index of each completion call
    c_result,          \* the Ok(String) returned
    c_error,           \* how execute ended other than by returning Ok
    \* ---- VotingParallelizer::safety_vote (parallelization.rs) ----
    s_pc,              \* position in safety_vote
    s_handles,         \* `handles`: one spawned unit per voter
    s_result,          \* the SafetyVotingResult returned
    \* ---- ConfidenceBasedOptimizer::generate_with_confidence (evaluator_optimizer.rs) ----
    k_pc,              \* position in generate_with_confidence
    k_threshold,       \* confidence_threshold, in hundredths
    k_max_attempts,    \* max_attempts
    k_i,               \* the loop variable `i`
    k_attempts,        \* `attempts`
    k_best_output,     \* `best_output`
    k_best_confidence, \* `best_confidence`, in hundredths
    k_calls,           \* history: the temperature of each completion call
    k_responses,       \* history: the response of each completion call
    k_result           \* the ConfidenceResult returned

orchVars == << o_pc, o_workers, o_response, o_subtasks, o_sorted, o_results,
               o_worker_results, o_calls, o_synth_calls, o_synth_results, o_error >>
fanVars == << f_pc, f_subtasks, f_handles, f_finish_order, f_returned >>
voteVars == << v_pc, v_option_count, v_handles, v_result >>
guardVars == << g_pc, g_main, g_handles, g_result >>
evalVars == << e_pc, e_max_iterations, e_threshold, e_i, e_current_output,
               e_last_evaluation, e_history, e_gen_calls, e_eval_calls,
               e_result, e_error >>

agentVars == << a_pc, a_max_steps, a_should_stop, a_total_steps, a_tool_calls,
                a_action_history, a_is_complete, a_final_result, a_conversation,
                a_completion_calls, a_tool_invocations, a_response, a_result,
                a_error >>
routerVars == << r_pc, r_routes, r_fallback, r_threshold, r_classification,
                 r_response, r_target, r_invoked, r_result, r_error >>
chainVars == << c_pc, c_steps, c_k, c_context, c_current_output, c_history,
                c_prompts, c_calls, c_result, c_error >>

safetyVars == << s_pc, s_handles, s_result >>
confVars == << k_pc, k_threshold, k_max_attempts, k_i, k_attempts, k_best_output,
               k_best_confidence, k_calls, k_responses, k_result >>

vars == << orchVars, fanVars, voteVars, guardVars, evalVars, agentVars,
           routerVars, chainVars, safetyVars, confVars >>

(***************************************************************************)
(* Small helpers                                                           *)
(***************************************************************************)
Range(s) == { s[i] : i \in DOMAIN s }

Max(S) == CHOOSE x \in S : \A y \in S : y <= x

SeqsUpTo(S, n) == UNION { [1..k -> S] : k \in 0..n }

NoRepeat(s) == \A i, j \in DOMAIN s : i # j => s[i] # s[j]

NoError == [kind |-> "none", id |-> ""]

(***************************************************************************)
(* Orchestrator                                                            *)
(***************************************************************************)
\* Bounds of the task graphs the decomposition may return.
MaxNodes == 3

\* Subtask ids the completion service may use in a decomposition.
Ids == {"a", "b", "c"}

\* A dependency list names up to MaxDeps distinct ids (its own id included).
MaxDeps == Cardinality(Ids) - 1

\* Worker types a worker can be registered under.
WorkerTypes == {"researcher", "writer"}

\* The worker_type a decomposition names.  It selects the worker object (a
\* registered one, or a default LLMWorker built on the spot), not the control
\* flow of topological_sort or of the execution loop.
NamedWorkerTypes == {"researcher"}

\* Subtask {id, worker_type, dependencies}; the description is not modelled.
Subtask ==
    [id : Ids, worker_type : NamedWorkerTypes,
     dependencies : { d \in SeqsUpTo(Ids, MaxDeps) : NoRepeat(d) }]

\* The task graphs serde_json can decode from a decomposition response.
Graphs == UNION { [1..n -> Subtask] : n \in 1..MaxNodes }

\* What the decomposition call returns: a text serde_json decodes to a task
\* graph, or one it does not decode.
DecompositionResponses ==
    { [decodes |-> FALSE, graph |-> << >>] }
      \cup { [decodes |-> TRUE, graph |-> g] : g \in Graphs }

NoDecomposition == [decodes |-> FALSE, graph |-> << >>]

\* self.workers.keys().next().cloned().unwrap_or("general"): the first key
\* of a HashMap is any of its keys.
FallbackWorkerTypesGeneral(workers) == {"general"}

FallbackWorkerTypes(workers) == IF workers = {} THEN {"general"} ELSE workers

\* decompose_task's fallback when the response does not decode: the graphs
\* it may build.
FallbackGraphs(workers) ==
    { << [id |-> "main", worker_type |-> w, dependencies |-> << >>] >> :
        w \in FallbackWorkerTypes(workers) }

\* What decompose_task may return for a response.
DecomposeTask(response, workers) ==
    IF response.decodes THEN {response.graph} ELSE FallbackGraphs(workers)

\* task_map: id -> subtask; collecting into a HashMap keeps the last subtask
\* inserted under an id.
TaskMap(subtasks) ==
    [ id \in { subtasks[i].id : i \in DOMAIN subtasks } |->
        subtasks[Max({ i \in DOMAIN subtasks : subtasks[i].id = id })] ]

\* The state threaded through visit: visited, visiting, result, and the id of
\* the bail! once it happened.
SortState0 == [visited |-> {}, visiting |-> {}, result |-> << >>, err |-> NoError]

RECURSIVE Visit(_, _, _), VisitDeps(_, _, _, _)

\* Mutant of Visit: pushes the subtask before its dependencies are visited.
VisitPreOrder(id, task_map, st) ==
    IF st.err.kind # "none" THEN st
    ELSE IF id \in st.visited THEN st
    ELSE IF id \in st.visiting
      THEN [st EXCEPT !.err = [kind |-> "circular", id |-> id]]
    ELSE
      LET s1 == [st EXCEPT !.visiting = @ \cup {id}]
          s2 == IF id \in DOMAIN task_map
                  THEN VisitDeps(task_map[id].dependencies, 1, task_map,
                                 [s1 EXCEPT !.result = Append(@, task_map[id])])
                  ELSE s1
      IN  IF s2.err.kind # "none" THEN s2
          ELSE [s2 EXCEPT !.visiting = @ \ {id}, !.visited = @ \cup {id}]

\* Mutant of Visit: no visiting set, so a cycle is never reported.
VisitNoCycleCheck(id, task_map, st) ==
    IF st.err.kind # "none" THEN st
    ELSE IF id \in st.visited \/ id \in st.visiting THEN st
    ELSE
      LET s1 == [st EXCEPT !.visiting = @ \cup {id}]
          s2 == IF id \in DOMAIN task_map
                  THEN LET s3 == VisitDeps(task_map[id].dependencies, 1, task_map, s1)
                       IN  [s3 EXCEPT !.result = Append(@, task_map[id])]
                  ELSE s1
      IN  [s2 EXCEPT !.visiting = @ \ {id}, !.visited = @ \cup {id}]

\* Mutant of Visit: no visited set, so a node is pushed once per visit.
VisitRevisits(id, task_map, st) ==
    IF st.err.kind # "none" THEN st
    ELSE IF id \in st.visiting
      THEN [st EXCEPT !.err = [kind |-> "circular", id |-> id]]
    ELSE
      LET s1 == [st EXCEPT !.visiting = @ \cup {id}]
          s2 == IF id \in DOMAIN task_map
                  THEN LET s3 == VisitDeps(task_map[id].dependencies, 1, task_map, s1)
                       IN  IF s3.err.kind # "none" THEN s3
                           ELSE [s3 EXCEPT !.result = Append(@, task_map[id])]
                  ELSE s1
      IN  IF s2.err.kind # "none" THEN s2
          ELSE [s2 EXCEPT !.visiting = @ \ {id}, !.visited = @ \cup {id}]

\* fn visit of topological_sort.
Visit(id, task_map, st) ==
    IF st.err.kind # "none" THEN st                       \* `?` already returned
    ELSE IF id \in st.visited THEN st
    ELSE IF id \in st.visiting
      THEN [st EXCEPT !.err = [kind |-> "circular", id |-> id]]
    ELSE
      LET s1 == [st EXCEPT !.visiting = @ \cup {id}]
          s2 == IF id \in DOMAIN task_map
                  THEN LET s3 == VisitDeps(task_map[id].dependencies, 1, task_map, s1)
                       IN  IF s3.err.kind # "none" THEN s3
                           ELSE [s3 EXCEPT !.result = Append(@, task_map[id])]
                  ELSE s1
      IN  IF s2.err.kind # "none" THEN s2
          ELSE [s2 EXCEPT !.visiting = @ \ {id}, !.visited = @ \cup {id}]

\* `for dep in &subtask.dependencies { visit(dep, ...)?; }`
VisitDeps(deps, k, task_map, st) ==
    IF k > Len(deps) \/ st.err.kind # "none" THEN st
    ELSE VisitDeps(deps, k + 1, task_map, Visit(deps[k], task_map, st))

RECURSIVE SortFrom(_, _, _, _)
\* `for subtask in subtasks { visit(&subtask.id, ...)?; }`
SortFrom(subtasks, k, task_map, st) ==
    IF k > Len(subtasks) \/ st.err.kind # "none" THEN st
    ELSE SortFrom(subtasks, k + 1, task_map, Visit(subtasks[k].id, task_map, st))

\* Orchestrator::topological_sort: [result, err].
TopologicalSort(subtasks) == SortFrom(subtasks, 1, TaskMap(subtasks), SortState0)

\* Orchestrator::new
OrchInit ==
    /\ o_pc = "decompose"
    /\ o_workers = {}
    /\ o_response = NoDecomposition
    /\ o_subtasks = << >>
    /\ o_sorted = << >>
    /\ o_results = {}
    /\ o_worker_results = << >>
    /\ o_calls = << >>
    /\ o_synth_calls = 0
    /\ o_synth_results = {}
    /\ o_error = NoError

\* register_worker, before execute is called:
\* self.workers.insert(worker.worker_type(), worker)
ORegisterWorker ==
    /\ o_pc = "decompose"
    /\ \E worker_type \in WorkerTypes \ o_workers :
         o_workers' = o_workers \cup {worker_type}
    /\ UNCHANGED << o_pc, o_response, o_subtasks, o_sorted, o_results,
                    o_worker_results, o_calls, o_synth_calls, o_synth_results, o_error >>
    /\ UNCHANGED << fanVars, voteVars, guardVars, evalVars, agentVars, routerVars,
                    chainVars, safetyVars,
                    confVars >>

\* decompose_task: the completion call fails (`.await?`), or its response
\* decodes to a task graph, or it does not decode and the fallback is used.
ODecomposeFail ==
    /\ o_pc = "decompose"
    /\ o_pc' = "failed"
    /\ o_error' = [kind |-> "completion", id |-> ""]
    /\ UNCHANGED << o_workers, o_response, o_subtasks, o_sorted, o_results,
                    o_worker_results, o_calls, o_synth_calls, o_synth_results >>
    /\ UNCHANGED << fanVars, voteVars, guardVars, evalVars, agentVars, routerVars,
                    chainVars, safetyVars,
                    confVars >>

ODecompose ==
    /\ o_pc = "decompose"
    /\ \E response \in DecompositionResponses :
         /\ o_response' = response
         /\ \E g \in DecomposeTask(response, o_workers) : o_subtasks' = g
    /\ o_pc' = "sort"
    /\ UNCHANGED << o_workers, o_sorted, o_results, o_worker_results, o_calls,
                    o_synth_calls, o_synth_results, o_error >>
    /\ UNCHANGED << fanVars, voteVars, guardVars, evalVars, agentVars, routerVars,
                    chainVars, safetyVars,
                    confVars >>

\* `let sorted_subtasks = self.topological_sort(&subtasks)?;`
OSort ==
    /\ o_pc = "sort"
    /\ LET r == TopologicalSort(o_subtasks)
       IN  IF r.err.kind # "none"
             THEN /\ o_pc' = "failed"
                  /\ o_error' = r.err
                  /\ UNCHANGED o_sorted
             ELSE /\ o_pc' = "execute"
                  /\ o_sorted' = r.result
                  /\ UNCHANGED o_error
    /\ UNCHANGED << o_workers, o_response, o_subtasks, o_results, o_worker_results,
                    o_calls, o_synth_calls, o_synth_results >>
    /\ UNCHANGED << fanVars, voteVars, guardVars, evalVars, agentVars, routerVars,
                    chainVars, safetyVars,
                    confVars >>

\* Mutant of DepResults: every declared dependency gets an entry.
DepResultsAllDeclared(subtask, results) == Range(subtask.dependencies)

\* dep_results: the declared dependencies that have an entry in `results`.
DepResults(subtask, results) == Range(subtask.dependencies) \cap results

\* One iteration of `for subtask in sorted_subtasks`: the registered worker
\* or the default LLMWorker is awaited and returns Ok or Err.
OExecuteNode ==
    /\ o_pc = "execute"
    /\ Len(o_worker_results) < Len(o_sorted)
    /\ LET subtask == o_sorted[Len(o_worker_results) + 1]
       IN  /\ o_calls' = Append(o_calls,
                  [id |-> subtask.id,
                   worker |-> IF subtask.worker_type \in o_workers
                                THEN "registered" ELSE "default",
                   dep_results |-> DepResults(subtask, o_results)])
           /\ \E ok \in BOOLEAN :
                /\ o_results' = IF ok THEN o_results \cup {subtask.id} ELSE o_results
                /\ o_worker_results' =
                     Append(o_worker_results, [subtask_id |-> subtask.id, success |-> ok])
    /\ UNCHANGED << o_workers, o_response, o_pc, o_subtasks, o_sorted, o_synth_calls,
                    o_synth_results, o_error >>
    /\ UNCHANGED << fanVars, voteVars, guardVars, evalVars, agentVars, routerVars,
                    chainVars, safetyVars,
                    confVars >>

\* Mutant of OSynthesize: synthesis does not wait for the loop to end.
OSynthesizeEarly ==
    /\ o_pc = "execute"
    /\ o_synth_calls' = o_synth_calls + 1
    /\ o_synth_results' = o_results
    /\ \E ok \in BOOLEAN :
         IF ok THEN o_pc' = "returned" /\ UNCHANGED o_error
               ELSE o_pc' = "failed" /\ o_error' = [kind |-> "completion", id |-> ""]
    /\ UNCHANGED << o_workers, o_response, o_subtasks, o_sorted, o_results,
                    o_worker_results, o_calls >>
    /\ UNCHANGED << fanVars, voteVars, guardVars, evalVars, agentVars, routerVars,
                    chainVars, safetyVars,
                    confVars >>

\* After the loop: synthesize_results(task, &results).await? and the
\* Ok(OrchestratorResult).
OSynthesize ==
    /\ o_pc = "execute"
    /\ Len(o_worker_results) = Len(o_sorted)
    /\ o_synth_calls' = o_synth_calls + 1
    /\ o_synth_results' = o_results
    /\ \E ok \in BOOLEAN :
         IF ok THEN o_pc' = "returned" /\ UNCHANGED o_error
               ELSE o_pc' = "failed" /\ o_error' = [kind |-> "completion", id |-> ""]
    /\ UNCHANGED << o_workers, o_response, o_subtasks, o_sorted, o_results,
                    o_worker_results, o_calls >>
    /\ UNCHANGED << fanVars, voteVars, guardVars, evalVars, agentVars, routerVars,
                    chainVars, safetyVars,
                    confVars >>

OrchNext == ORegisterWorker \/ ODecomposeFail \/ ODecompose \/ OSort \/ OExecuteNode
            \/ OSynthesize

(***************************************************************************)
(* SectioningParallelizer::execute_parallel                                *)
(***************************************************************************)
MaxSubtasks == 3

SubtaskNames == {"security", "performance"}

\* A JoinHandle<SubtaskResult> whose unit is still running.
PendingSubtask ==
    [done |-> FALSE, call_ok |-> FALSE,
     out |-> [name |-> "", result |-> FALSE, success |-> FALSE, error |-> FALSE]]

\* The SubtaskResult a unit builds from its create_message outcome
\* (result and error: whether the Option is Some).
UnitOutcome(name, call_ok) ==
    IF call_ok
      THEN [name |-> name, result |-> TRUE, success |-> TRUE, error |-> FALSE]
      ELSE [name |-> name, result |-> FALSE, success |-> FALSE, error |-> TRUE]

\* Mutant of CollectJoined: keeps only the units that succeeded.
CollectJoinedSuccessOnly(handles) ==
    SelectSeq([ i \in DOMAIN handles |-> handles[i].out ], LAMBDA r : r.success)

\* Mutant of CollectJoined: the units' values in the order they finished.
CollectJoinedCompletionOrder(handles) ==
    [ k \in DOMAIN f_finish_order |-> handles[f_finish_order[k]].out ]

\* join_all(handles).await, then filter_map(|r| r.ok()): the units' values in
\* handle order (a unit does not panic, so no JoinError is dropped).
CollectJoined(handles) == [ i \in DOMAIN handles |-> handles[i].out ]

FanInit ==
    /\ f_pc = "start"
    /\ f_subtasks = << >>
    /\ f_handles = << >>
    /\ f_finish_order = << >>
    /\ f_returned = << >>

\* The map over `subtasks` that tokio::spawn's one unit per subtask.
FSpawn ==
    /\ f_pc = "start"
    /\ \E subtasks \in SeqsUpTo(SubtaskNames, MaxSubtasks) :
         /\ f_subtasks' = subtasks
         /\ f_handles' = [ i \in DOMAIN subtasks |-> PendingSubtask ]
    /\ f_pc' = "join"
    /\ UNCHANGED << f_finish_order, f_returned >>
    /\ UNCHANGED << orchVars, voteVars, guardVars, evalVars, agentVars, routerVars,
                    chainVars, safetyVars,
                    confVars >>

\* One spawned unit runs to its end: create_message returns Ok or Err.
FUnitFinish ==
    /\ \E i \in DOMAIN f_handles :
         /\ ~f_handles[i].done
         /\ \E call_ok \in BOOLEAN :
              f_handles' = [f_handles EXCEPT ![i] =
                  [done |-> TRUE, call_ok |-> call_ok,
                   out |-> UnitOutcome(f_subtasks[i], call_ok)]]
         /\ f_finish_order' = Append(f_finish_order, i)
    /\ UNCHANGED << f_pc, f_subtasks, f_returned >>
    /\ UNCHANGED << orchVars, voteVars, guardVars, evalVars, agentVars, routerVars,
                    chainVars, safetyVars,
                    confVars >>

\* join_all resolves once every handle has resolved.
FJoin ==
    /\ f_pc = "join"
    /\ \A i \in DOMAIN f_handles : f_handles[i].done
    /\ f_returned' = CollectJoined(f_handles)
    /\ f_pc' = "returned"
    /\ UNCHANGED << f_subtasks, f_handles, f_finish_order >>
    /\ UNCHANGED << orchVars, voteVars, guardVars, evalVars, agentVars, routerVars,
                    chainVars, safetyVars,
                    confVars >>

FanNext == FSpawn \/ FUnitFinish \/ FJoin

(***************************************************************************)
(* VotingParallelizer::vote                                                *)
(***************************************************************************)
MaxVoters == 3
MaxOptions == 2

\* Option<usize>::None.
NoVote == -1

\* What a voter's create_message call yields: an error, or a text that after
\* trim() is a decimal number (its value) or is not.
VoterResponses ==
    { [kind |-> "err", value |-> 0], [kind |-> "text", value |-> 0] }
      \cup { [kind |-> "number", value |-> n] : n \in 0..(MaxOptions + 1) }

\* response.trim().parse::<usize>().ok()
ParseUsize(response) == IF response.kind = "number" THEN response.value ELSE NoVote

\* Mutant of VoteOf: the parsed number is used as the index without the -1.
VoteOfNotShifted(response, option_count) ==
    IF response.kind = "err" THEN NoVote
    ELSE LET v == ParseUsize(response)
         IN  IF v # NoVote /\ v >= 1 /\ v <= option_count THEN v ELSE NoVote

\* The body of a voter unit: `.ok()?`, parse, filter to 1..=option_count, -1.
VoteOf(response, option_count) ==
    IF response.kind = "err" THEN NoVote
    ELSE LET v == ParseUsize(response)
         IN  IF v # NoVote /\ v >= 1 /\ v <= option_count THEN v - 1 ELSE NoVote

PendingVoter == [done |-> FALSE, response |-> [kind |-> "err", value |-> 0], vote |-> NoVote]

\* valid_votes: the Some votes, in handle order.
ValidVotes(handles) ==
    LET votes == [ i \in DOMAIN handles |-> handles[i].vote ]
    IN  SelectSeq(votes, LAMBDA v : v # NoVote)

\* vote_counts: index -> number of votes, for the indexes that got a vote.
VoteCounts(valid_votes) ==
    [ idx \in Range(valid_votes) |->
        Cardinality({ k \in DOMAIN valid_votes : valid_votes[k] = idx }) ]

\* max_votes
MaxVotes(vote_counts) ==
    IF DOMAIN vote_counts = {} THEN 0
    ELSE Max({ vote_counts[idx] : idx \in DOMAIN vote_counts })

\* Mutant of WinningIndexes: any index that got a vote.
WinningIndexesAnyVoted(vote_counts) ==
    IF DOMAIN vote_counts = {} THEN {0} ELSE DOMAIN vote_counts

\* The indexes max_by_key may return: it keeps the last maximum in the
\* HashMap's iteration order, which is any of the indexes with the most
\* votes; unwrap_or(0) when there is no vote.
WinningIndexes(vote_counts) ==
    IF DOMAIN vote_counts = {} THEN {0}
    ELSE { idx \in DOMAIN vote_counts : vote_counts[idx] = MaxVotes(vote_counts) }

\* Mutant of Consensus: at least half instead of more than half.
ConsensusAtLeastHalf(valid_votes, max_votes) ==
    Len(valid_votes) # 0 /\ max_votes >= Len(valid_votes) \div 2

\* consensus: !valid_votes.is_empty() && max_votes > valid_votes.len() / 2
Consensus(valid_votes, max_votes) ==
    Len(valid_votes) # 0 /\ max_votes > Len(valid_votes) \div 2

\* option_votes: one VoteCount per option, index 0..options.len()-1.
OptionVotes(vote_counts, option_count) ==
    [ i \in 0..(option_count - 1) |->
        IF i \in DOMAIN vote_counts THEN vote_counts[i] ELSE 0 ]

NoVotingResult ==
    [winning_index |-> 0, winning_option |-> NoVote, vote_counts |-> << >>,
     total_votes |-> 0, consensus |-> FALSE]

VoteInit ==
    /\ v_pc = "start"
    /\ v_option_count = 0
    /\ v_handles = << >>
    /\ v_result = NoVotingResult

\* The map over 0..voter_count that tokio::spawn's one unit per voter.
VSpawn ==
    /\ v_pc = "start"
    /\ \E option_count \in 0..MaxOptions, voter_count \in 0..MaxVoters :
         /\ v_option_count' = option_count
         /\ v_handles' = [ i \in 1..voter_count |-> PendingVoter ]
    /\ v_pc' = "join"
    /\ UNCHANGED v_result
    /\ UNCHANGED << orchVars, fanVars, guardVars, evalVars, agentVars, routerVars,
                    chainVars, safetyVars,
                    confVars >>

\* One voter unit runs to its end.
VUnitFinish ==
    /\ \E i \in DOMAIN v_handles :
         /\ ~v_handles[i].done
         /\ \E response \in VoterResponses :
              v_handles' = [v_handles EXCEPT ![i] =
                  [done |-> TRUE, response |-> response,
                   vote |-> VoteOf(response, v_option_count)]]
    /\ UNCHANGED << v_pc, v_option_count, v_result >>
    /\ UNCHANGED << orchVars, fanVars, guardVars, evalVars, agentVars, routerVars,
                    chainVars, safetyVars,
                    confVars >>

\* join_all, the tally and the Ok(VotingResult).  winning_option is the
\* option at winning_index (its index stands for its text), or the default
\* when options.get is None.
VJoin ==
    /\ v_pc = "join"
    /\ \A i \in DOMAIN v_handles : v_handles[i].done
    /\ LET valid_votes == ValidVotes(v_handles)
           vote_counts == VoteCounts(valid_votes)
       IN  \E winning_index \in WinningIndexes(vote_counts) :
             v_result' =
               [winning_index |-> winning_index,
                winning_option |-> IF winning_index < v_option_count
                                     THEN winning_index ELSE NoVote,
                vote_counts |-> OptionVotes(vote_counts, v_option_count),
                total_votes |-> Len(valid_votes),
                consensus |-> Consensus(valid_votes, MaxVotes(vote_counts))]
    /\ v_pc' = "returned"
    /\ UNCHANGED << v_option_count, v_handles >>
    /\ UNCHANGED << orchVars, fanVars, guardVars, evalVars, agentVars, routerVars,
                    chainVars, safetyVars,
                    confVars >>

VoteNext == VSpawn \/ VUnitFinish \/ VJoin

(***************************************************************************)
(* GuardrailsParallelizer::execute_with_guardrails                         *)
(***************************************************************************)
MaxChecks == 3

\* Texts a guardrail completion may return.
GuardrailTexts == {"PASS", "pass", "FAIL", "FAIL: the input must not pass"}

\* response.to_uppercase().contains("PASS"), text by text.
UpperContainsPass(text) ==
    CASE text = "PASS" -> TRUE
      [] text = "pass" -> TRUE
      [] text = "FAIL" -> FALSE
      [] text = "FAIL: the input must not pass" -> TRUE
      [] text = "" -> FALSE

\* What a check's create_message call yields.
GuardrailResponses ==
    { [kind |-> "err", text |-> ""] } \cup { [kind |-> "ok", text |-> t] : t \in GuardrailTexts }

\* format!("guardrail_{}", i), i counted from 0.
GuardrailName(i) == << "guardrail", i - 1 >>

\* Mutant of GuardrailCheck: a check whose completion call failed passes.
GuardrailCheckErrPasses(i, response) ==
    [name |-> GuardrailName(i),
     passed |-> IF response.kind = "err" THEN TRUE ELSE UpperContainsPass(response.text)]

\* The body of a check unit: unwrap_or_default() turns a failed call into
\* the empty text.
GuardrailCheck(i, response) ==
    LET text == IF response.kind = "err" THEN "" ELSE response.text
    IN  [name |-> GuardrailName(i), passed |-> UpperContainsPass(text)]

PendingCheck ==
    [done |-> FALSE, response |-> [kind |-> "err", text |-> ""],
     out |-> [name |-> << "guardrail", -1 >>, passed |-> FALSE]]

PendingMain == [done |-> FALSE, call_ok |-> FALSE]

\* all_passed
AllPassed(guardrail_results) ==
    \A k \in DOMAIN guardrail_results : guardrail_results[k].passed

\* blocking: the names of the results that did not pass, in order.
Blocking(guardrail_results) ==
    LET failing == SelectSeq(guardrail_results, LAMBDA g : ~g.passed)
    IN  [ k \in DOMAIN failing |-> failing[k].name ]

\* Mutant of GuardrailedResultOf: the result is flagged, not withheld.
GuardrailedResultFlagOnly(guardrail_results) ==
    [result |-> "main_result",
     blocked |-> ~AllPassed(guardrail_results),
     guardrail_results |-> guardrail_results,
     blocking_guardrails |-> Blocking(guardrail_results)]

\* The GuardrailedResult built once the primary succeeded ("none": None).
GuardrailedResultOf(guardrail_results) ==
    [result |-> IF AllPassed(guardrail_results) THEN "main_result" ELSE "none",
     blocked |-> ~AllPassed(guardrail_results),
     guardrail_results |-> guardrail_results,
     blocking_guardrails |-> Blocking(guardrail_results)]

NoGuardrailedResult ==
    [result |-> "none", blocked |-> FALSE, guardrail_results |-> << >>,
     blocking_guardrails |-> << >>]

GuardInit ==
    /\ g_pc = "start"
    /\ g_main = PendingMain
    /\ g_handles = << >>
    /\ g_result = NoGuardrailedResult

\* tokio::spawn of the primary task and of one unit per guardrail prompt.
GSpawn ==
    /\ g_pc = "start"
    /\ \E m \in 0..MaxChecks : g_handles' = [ i \in 1..m |-> PendingCheck ]
    /\ g_pc' = "await_main"
    /\ UNCHANGED << g_main, g_result >>
    /\ UNCHANGED << orchVars, fanVars, voteVars, evalVars, agentVars, routerVars,
                    chainVars, safetyVars,
                    confVars >>

\* The primary unit runs to its end.
GMainFinish ==
    /\ g_pc # "start"
    /\ ~g_main.done
    /\ \E call_ok \in BOOLEAN : g_main' = [done |-> TRUE, call_ok |-> call_ok]
    /\ UNCHANGED << g_pc, g_handles, g_result >>
    /\ UNCHANGED << orchVars, fanVars, voteVars, evalVars, agentVars, routerVars,
                    chainVars, safetyVars,
                    confVars >>

\* One check unit runs to its end (spawned units run on whether or not
\* execute_with_guardrails has returned).
GCheckFinish ==
    /\ \E i \in DOMAIN g_handles :
         /\ ~g_handles[i].done
         /\ \E response \in GuardrailResponses :
              g_handles' = [g_handles EXCEPT ![i] =
                  [done |-> TRUE, response |-> response,
                   out |-> GuardrailCheck(i, response)]]
    /\ UNCHANGED << g_pc, g_main, g_result >>
    /\ UNCHANGED << orchVars, fanVars, voteVars, evalVars, agentVars, routerVars,
                    chainVars, safetyVars,
                    confVars >>

\* Mutant of GAwaitMain: the primary's failure does not end the invocation.
GAwaitMainIgnoresFailure ==
    /\ g_pc = "await_main"
    /\ g_main.done
    /\ g_pc' = "join"
    /\ UNCHANGED << g_main, g_handles, g_result >>
    /\ UNCHANGED << orchVars, fanVars, voteVars, evalVars, agentVars, routerVars,
                    chainVars, safetyVars,
                    confVars >>

\* `let main_result = main_handle.await??;`
GAwaitMain ==
    /\ g_pc = "await_main"
    /\ g_main.done
    /\ g_pc' = IF g_main.call_ok THEN "join" ELSE "failed"
    /\ UNCHANGED << g_main, g_handles, g_result >>
    /\ UNCHANGED << orchVars, fanVars, voteVars, evalVars, agentVars, routerVars,
                    chainVars, safetyVars,
                    confVars >>

\* join_all(guardrail_handles) and the Ok(GuardrailedResult).
GJoin ==
    /\ g_pc = "join"
    /\ \A i \in DOMAIN g_handles : g_handles[i].done
    /\ g_result' = GuardrailedResultOf([ i \in DOMAIN g_handles |-> g_handles[i].out ])
    /\ g_pc' = "returned"
    /\ UNCHANGED << g_main, g_handles >>
    /\ UNCHANGED << orchVars, fanVars, voteVars, evalVars, agentVars, routerVars,
                    chainVars, safetyVars,
                    confVars >>

GuardNext == GSpawn \/ GMainFinish \/ GCheckFinish \/ GAwaitMain \/ GJoin

(***************************************************************************)
(* EvaluatorOptimizer::optimize                                            *)
(***************************************************************************)
MaxIterations == 5

\* Scores are f64 in the code; the model holds them in hundredths.
Scores == {50, 70, 90}
Thresholds == {70, 85}

\* A text of the completion service is identified by the call that returned
\* it (1, 2, ...); 0 is the empty text, the only text the code tells apart
\* (String::new(), is_empty()).
EmptyText == 0

\* Option<EvaluationResult>::None, and EvaluationResult::default().
NoEvaluation == [some |-> FALSE, overall_score |-> 0, feedback |-> EmptyText]

\* What the evaluate completion returns: a text with or without a
\* parseable "overall_score" number.
EvaluationResponses ==
    { [has_score |-> FALSE, score |-> 0] } \cup { [has_score |-> TRUE, score |-> x] : x \in Scores }

\* parse_evaluation_json: the default result with the fields that were
\* extracted; the n-th response carries the n-th feedback text.
ParseEvaluationJson(response, n) ==
    [some |-> TRUE,
     overall_score |-> IF response.has_score THEN response.score ELSE 0,
     feedback |-> n]

\* The prompt generate builds: the task alone when previous_output is empty,
\* else the task, the previous output and the previous evaluation's feedback
\* and suggestions.
GeneratePrompt(previous_output, previous_evaluation) ==
    IF previous_output = EmptyText
      THEN [kind |-> "initial", previous_output |-> EmptyText, feedback |-> EmptyText]
      ELSE [kind |-> "refine", previous_output |-> previous_output,
            feedback |-> IF previous_evaluation.some
                           THEN previous_evaluation.feedback ELSE EmptyText]

\* Mutant of MetThreshold: the threshold itself does not stop the loop.
MetThresholdStrict(score, threshold) == score > threshold

\* `evaluation.overall_score >= score_threshold`
MetThreshold(score, threshold) == score >= threshold

\* max_by over self.history: of several equally maximum elements the last
\* is returned (Iterator::max_by); 0 stands for None on an empty history.
BestIndex(history) ==
    IF history = << >> THEN 0
    ELSE LET top == Max({ history[k].evaluation.overall_score : k \in DOMAIN history })
         IN  Max({ k \in DOMAIN history : history[k].evaluation.overall_score = top })

NoOptimizationResult ==
    [final_output |-> EmptyText, final_score |-> 0, iterations |-> 0,
     met_threshold |-> FALSE, history |-> << >>]

EvalInit ==
    /\ e_pc = "start"
    /\ e_max_iterations = 0
    /\ e_threshold = 0
    /\ e_i = 0
    /\ e_current_output = EmptyText
    /\ e_last_evaluation = NoEvaluation
    /\ e_history = << >>
    /\ e_gen_calls = << >>
    /\ e_eval_calls = 0
    /\ e_result = NoOptimizationResult
    /\ e_error = "none"

\* Entry of optimize: history.clear(), the locals, and the first test of
\* `for i in 0..max_iterations`.
EStart ==
    /\ e_pc = "start"
    /\ \E max_iterations \in 0..MaxIterations, score_threshold \in Thresholds :
         /\ e_max_iterations' = max_iterations
         /\ e_threshold' = score_threshold
         /\ e_pc' = IF 0 < max_iterations THEN "generate" ELSE "select_best"
    /\ e_history' = << >>
    /\ e_current_output' = EmptyText
    /\ e_last_evaluation' = NoEvaluation
    /\ e_i' = 0
    /\ UNCHANGED << e_gen_calls, e_eval_calls, e_result, e_error >>
    /\ UNCHANGED << orchVars, fanVars, voteVars, guardVars, agentVars, routerVars,
                    chainVars, safetyVars,
                    confVars >>

\* `current_output = self.generate(...).await?`: the call fails, or returns
\* the empty text or a new text.
EGenerate ==
    /\ e_pc = "generate"
    /\ e_gen_calls' = Append(e_gen_calls, GeneratePrompt(e_current_output, e_last_evaluation))
    /\ \/ /\ e_pc' = "failed"
          /\ e_error' = "completion"
          /\ UNCHANGED e_current_output
       \/ /\ \E output \in {EmptyText, Len(e_gen_calls) + 1} : e_current_output' = output
          /\ e_pc' = "evaluate"
          /\ UNCHANGED e_error
    /\ UNCHANGED << e_max_iterations, e_threshold, e_i, e_last_evaluation, e_history,
                    e_eval_calls, e_result >>
    /\ UNCHANGED << orchVars, fanVars, voteVars, guardVars, agentVars, routerVars,
                    chainVars, safetyVars,
                    confVars >>

\* `self.evaluate(&current_output).await?`, the push onto the history, the
\* threshold test and, below it, the step of the for loop.
EEvaluate ==
    /\ e_pc = "evaluate"
    /\ e_eval_calls' = e_eval_calls + 1
    /\ \/ /\ e_pc' = "failed"
          /\ e_error' = "completion"
          /\ UNCHANGED << e_i, e_last_evaluation, e_history, e_result >>
       \/ \E response \in EvaluationResponses :
            LET evaluation == ParseEvaluationJson(response, e_eval_calls + 1)
                history == Append(e_history, [iteration |-> e_i + 1,
                                              output |-> e_current_output,
                                              evaluation |-> evaluation])
            IN  /\ e_history' = history
                /\ UNCHANGED e_error
                /\ IF MetThreshold(evaluation.overall_score, e_threshold)
                     THEN /\ e_result' = [final_output |-> e_current_output,
                                          final_score |-> evaluation.overall_score,
                                          iterations |-> e_i + 1,
                                          met_threshold |-> TRUE,
                                          history |-> history]
                          /\ e_pc' = "returned"
                          /\ UNCHANGED << e_i, e_last_evaluation >>
                     ELSE /\ e_last_evaluation' = evaluation
                          /\ e_i' = e_i + 1
                          /\ e_pc' = IF e_i + 1 < e_max_iterations
                                       THEN "generate" ELSE "select_best"
                          /\ UNCHANGED e_result
    /\ UNCHANGED << e_max_iterations, e_threshold, e_current_output, e_gen_calls >>
    /\ UNCHANGED << orchVars, fanVars, voteVars, guardVars, agentVars, routerVars,
                    chainVars, safetyVars,
                    confVars >>

\* After the loop: `let best = self.history.iter().max_by(..).unwrap();`
\* panics on an empty history, else the result is built from best.
ESelectBest ==
    /\ e_pc = "select_best"
    /\ LET best == BestIndex(e_history)
       IN  IF best = 0
             THEN /\ e_pc' = "panicked"
                  /\ e_error' = "unwrap_on_none"
                  /\ UNCHANGED e_result
             ELSE /\ e_result' = [final_output |-> e_history[best].output,
                                  final_score |-> e_history[best].evaluation.overall_score,
                                  iterations |-> e_max_iterations,
                                  met_threshold |-> FALSE,
                                  history |-> e_history]
                  /\ e_pc' = "returned"
                  /\ UNCHANGED e_error
    /\ UNCHANGED << e_max_iterations, e_threshold, e_i, e_current_output,
                    e_last_evaluation, e_history, e_gen_calls, e_eval_calls >>
    /\ UNCHANGED << orchVars, fanVars, voteVars, guardVars, agentVars, routerVars,
                    chainVars, safetyVars,
                    confVars >>

EvalNext == EStart \/ EGenerate \/ EEvaluate \/ ESelectBest

(***************************************************************************)
(* AutonomousAgent::run_with_stop                                          *)
(***************************************************************************)
MaxSteps == 3

\* The registered tools (self.tools): one ordinary tool, and one registered
\* under the name the protocol reserves.
RegisteredTools == {"search", "complete"}

\* The stop predicates a caller passes: run's |_| false, and predicates
\* over the step and tool-call counters.
StopPredicates == {"never", "steps_at_least_1", "tool_calls_at_least_1"}

\* should_stop(&self.state)
ShouldStop(predicate, total_steps, tool_calls) ==
    CASE predicate = "never" -> FALSE
      [] predicate = "steps_at_least_1" -> total_steps >= 1
      [] predicate = "tool_calls_at_least_1" -> tool_calls >= 1

\* What clean_json and serde_json::from_str::<AgentAction> make of a
\* response text:
\*   "slice_panic": the text holds ``` and its last '}' lies before its
\*                  first '{', so text[start..end] has start > end;
\*   "not_json":    from_str returns Err;
\*   "action":      an AgentAction, with thought / result present or not and
\*                  action None ("none") or Some(name).
ActionNames == {"none", "complete", "search", "lookup"}

AgentResponses ==
    { [parse |-> "slice_panic", thought |-> FALSE, action |-> "none", result |-> FALSE],
      [parse |-> "not_json", thought |-> FALSE, action |-> "none", result |-> FALSE] }
    \cup { [parse |-> "action", thought |-> t, action |-> a, result |-> r] :
             t \in BOOLEAN, a \in ActionNames, r \in BOOLEAN }

\* The AgentResponses told apart by process_response: `result` is only read
\* when the action is "complete".
AgentResponseClasses ==
    { r \in AgentResponses : r.result => (r.parse = "action" /\ r.action = "complete") }

\* No completion has returned yet.
NoResponse == [parse |-> "none", thought |-> FALSE, action |-> "none", result |-> FALSE]

\* self.tools.keys().join(", "): the keys of a HashMap, in any order.
ToolNameLists == {"search, complete", "complete, search"}

\* What a tool handler returns: Ok(result) or Err(e).
ToolOutcomes == {"ok", "err"}

\* `Ok(result) => result, Err(e) => format!("Error: {}", e)`
ToolResultTextDropsError(outcome) == "found"

ToolResultText(outcome) == IF outcome = "ok" THEN "found" ELSE "Error: " \o "timeout"

\* `action.result.or_else(|| Some(response.to_string()))`
FinalResultOfGivenOnly(response) == IF response.result THEN "result" ELSE "none"

FinalResultOf(response) == IF response.result THEN "result" ELSE "response"

UserTurn(content) == [role |-> "user", content |-> content]

\* Mutant of AssistantTurn: the response is pushed under the user role.
AssistantTurnAsUser(content) == [role |-> "user", content |-> content]

AssistantTurn(content) == [role |-> "assistant", content |-> content]

ActionRecord(step, action_type, tool_name, tool_result) ==
    [step |-> step, action_type |-> action_type, tool_name |-> tool_name,
     tool_result |-> tool_result]

\* The Ok(AgentResult) at the end of run_with_stop.
AgentResultOf(is_complete, final_result, total_steps, tool_calls, action_history) ==
    [success |-> is_complete,
     final_result |-> IF final_result # "none" THEN final_result
                      ELSE "Task not completed within step limit",
     total_steps |-> total_steps,
     tool_calls |-> tool_calls,
     action_history |-> action_history]

NoAgentResult == AgentResultOf(FALSE, "unset", 0, 0, << >>)

AgentInit ==
    /\ a_pc = "start"
    /\ a_max_steps = 0
    /\ a_should_stop = "never"
    /\ a_total_steps = 0
    /\ a_tool_calls = 0
    /\ a_action_history = << >>
    /\ a_is_complete = FALSE
    /\ a_final_result = "none"
    /\ a_conversation = << >>
    /\ a_completion_calls = 0
    /\ a_tool_invocations = << >>
    /\ a_response = NoResponse
    /\ a_result = NoAgentResult
    /\ a_error = "none"

\* Entry of run_with_stop: the state reset and the initial user message.
AStart ==
    /\ a_pc = "start"
    /\ \E max_steps \in 0..MaxSteps, should_stop \in StopPredicates :
         /\ a_max_steps' = max_steps
         /\ a_should_stop' = should_stop
    /\ a_total_steps' = 0
    /\ a_tool_calls' = 0
    /\ a_action_history' = << >>
    /\ a_is_complete' = FALSE
    /\ a_final_result' = "none"
    /\ a_conversation' = << UserTurn("Task: " \o "task") >>
    /\ a_pc' = "loop"
    /\ a_response' = NoResponse
    /\ UNCHANGED << a_completion_calls, a_tool_invocations, a_result, a_error >>
    /\ UNCHANGED << orchVars, fanVars, voteVars, guardVars, evalVars, routerVars,
                    chainVars, safetyVars,
                    confVars >>

\* `while self.state.total_steps < max_steps && !self.state.is_complete`
LoopConditionInclusive == a_total_steps <= a_max_steps /\ ~a_is_complete

\* Mutant of LoopCondition: the completion flag does not end the loop.
LoopConditionIgnoresComplete == a_total_steps < a_max_steps

LoopCondition == a_total_steps < a_max_steps /\ ~a_is_complete

\* The while condition is false: Ok(AgentResult).
ALoopExit ==
    /\ a_pc = "loop"
    /\ ~LoopCondition
    /\ a_result' = AgentResultOf(a_is_complete, a_final_result, a_total_steps,
                                 a_tool_calls, a_action_history)
    /\ a_pc' = "returned"
    /\ UNCHANGED << a_max_steps, a_should_stop, a_total_steps, a_tool_calls,
                    a_action_history, a_is_complete, a_final_result, a_conversation,
                    a_completion_calls, a_tool_invocations, a_response, a_error >>
    /\ UNCHANGED << orchVars, fanVars, voteVars, guardVars, evalVars, routerVars,
                    chainVars, safetyVars,
                    confVars >>

\* An iteration in which should_stop returns true: the step is counted, the
\* loop is left by `break` and the result is returned.
AStepStopAfterCall ==
    /\ a_pc = "loop"
    /\ a_total_steps < a_max_steps /\ ~a_is_complete
    /\ a_total_steps' = a_total_steps + 1
    /\ ShouldStop(a_should_stop, a_total_steps + 1, a_tool_calls)
    /\ a_completion_calls' = a_completion_calls + 1
    /\ a_result' = AgentResultOf(a_is_complete, a_final_result, a_total_steps + 1,
                                 a_tool_calls, a_action_history)
    /\ a_pc' = "returned"
    /\ UNCHANGED << a_max_steps, a_should_stop, a_tool_calls, a_action_history,
                    a_is_complete, a_final_result, a_conversation,
                    a_tool_invocations, a_response, a_error >>
    /\ UNCHANGED << orchVars, fanVars, voteVars, guardVars, evalVars, routerVars,
                    chainVars, safetyVars,
                    confVars >>

AStepStop ==
    /\ a_pc = "loop"
    /\ LoopCondition
    /\ a_total_steps' = a_total_steps + 1
    /\ ShouldStop(a_should_stop, a_total_steps + 1, a_tool_calls)
    /\ a_result' = AgentResultOf(a_is_complete, a_final_result, a_total_steps + 1,
                                 a_tool_calls, a_action_history)
    /\ a_pc' = "returned"
    /\ UNCHANGED << a_max_steps, a_should_stop, a_tool_calls, a_action_history,
                    a_is_complete, a_final_result, a_conversation,
                    a_completion_calls, a_tool_invocations, a_response, a_error >>
    /\ UNCHANGED << orchVars, fanVars, voteVars, guardVars, evalVars, routerVars,
                    chainVars, safetyVars,
                    confVars >>

\* An iteration whose completion call fails: `.await?`.
AStepCallFails ==
    /\ a_pc = "loop"
    /\ LoopCondition
    /\ a_total_steps' = a_total_steps + 1
    /\ ~ShouldStop(a_should_stop, a_total_steps + 1, a_tool_calls)
    /\ a_completion_calls' = a_completion_calls + 1
    /\ a_pc' = "failed"
    /\ a_error' = "completion"
    /\ UNCHANGED << a_max_steps, a_should_stop, a_tool_calls, a_action_history,
                    a_is_complete, a_final_result, a_conversation,
                    a_tool_invocations, a_response, a_result >>
    /\ UNCHANGED << orchVars, fanVars, voteVars, guardVars, evalVars, routerVars,
                    chainVars, safetyVars,
                    confVars >>

\* Mutant of WithThought: the thought is recorded under the next step.
WithThoughtNextStep(action_history, response, step) ==
    IF response.thought
      THEN Append(action_history, ActionRecord(step + 1, "thought", "none", "none"))
      ELSE action_history

\* The thought record process_response pushes first, if a thought is given.
WithThought(action_history, response, step) ==
    IF response.thought
      THEN Append(action_history, ActionRecord(step, "thought", "none", "none"))
      ELSE action_history

\* An iteration whose completion call returns a response, and
\* process_response on it.
AStepResponse ==
    /\ a_pc = "loop"
    /\ LoopCondition
    /\ a_total_steps' = a_total_steps + 1
    /\ ~ShouldStop(a_should_stop, a_total_steps + 1, a_tool_calls)
    /\ a_completion_calls' = a_completion_calls + 1
    /\ \E response \in AgentResponseClasses :
         LET step == a_total_steps + 1
             thought_history == WithThought(a_action_history, response, step)
         IN
         /\ a_response' = response
         /\
           CASE response.parse = "slice_panic" ->
                \* clean_json: text[start..end] with start > end
                /\ a_pc' = "panicked"
                /\ a_error' = "slice_index"
                /\ UNCHANGED << a_tool_calls, a_action_history, a_is_complete,
                                a_final_result, a_conversation, a_tool_invocations >>
           [] response.parse = "not_json" ->
                \* Err(_): the reformat turn and a text_response record
                /\ a_conversation' = a_conversation
                     \o << AssistantTurn("response"),
                           UserTurn("Please respond with a JSON action or mark the task as complete.") >>
                /\ a_action_history' =
                     Append(a_action_history, ActionRecord(step, "text_response", "none", "none"))
                /\ a_pc' = "loop"
                /\ UNCHANGED << a_tool_calls, a_is_complete, a_final_result,
                                a_tool_invocations, a_error >>
           [] response.parse = "action" /\ response.action = "complete" ->
                /\ a_action_history' = thought_history
                /\ a_is_complete' = TRUE
                /\ a_final_result' = FinalResultOf(response)
                /\ a_pc' = "loop"
                /\ UNCHANGED << a_tool_calls, a_conversation, a_tool_invocations, a_error >>
           [] response.parse = "action" /\ response.action = "none" ->
                /\ a_action_history' = thought_history
                /\ a_pc' = "loop"
                /\ UNCHANGED << a_tool_calls, a_is_complete, a_final_result,
                                a_conversation, a_tool_invocations, a_error >>
           [] response.parse = "action" /\ response.action \in RegisteredTools \ {"complete"} ->
                \* the handler returns Ok(result) or Err(e), kept as "Error: e"
                \E outcome \in ToolOutcomes :
                  LET tool_result == ToolResultText(outcome) IN
                  /\ a_tool_calls' = a_tool_calls + 1
                  /\ a_tool_invocations' =
                       Append(a_tool_invocations,
                              [name |-> response.action, outcome |-> outcome])
                  /\ a_action_history' =
                       Append(thought_history,
                              ActionRecord(step, "tool_call", response.action, tool_result))
                  /\ a_conversation' = a_conversation
                       \o << AssistantTurn("response"),
                             UserTurn("Tool result: " \o tool_result) >>
                  /\ a_pc' = "loop"
                  /\ UNCHANGED << a_is_complete, a_final_result, a_error >>
           [] response.parse = "action"
                /\ response.action \notin RegisteredTools \cup {"none", "complete"} ->
                \* Unknown action
                /\ a_action_history' = thought_history
                /\ \E tool_names \in ToolNameLists :
                     a_conversation' = a_conversation
                       \o << AssistantTurn("response"),
                             UserTurn("Unknown action: " \o response.action
                                      \o ". Available tools: " \o tool_names) >>
                /\ a_pc' = "loop"
                /\ UNCHANGED << a_tool_calls, a_is_complete, a_final_result,
                                a_tool_invocations, a_error >>
    /\ UNCHANGED << a_max_steps, a_should_stop, a_result >>
    /\ UNCHANGED << orchVars, fanVars, voteVars, guardVars, evalVars, routerVars,
                    chainVars, safetyVars,
                    confVars >>

AgentNext == AStart \/ ALoopExit \/ AStepStop \/ AStepCallFails \/ AStepResponse

(***************************************************************************)
(* Router::route                                                           *)
(***************************************************************************)
\* The categories a route can be registered for.
MaxRoutes == 2

RouteCategories == {"technical", "billing", "general"}

\* The category a classification response names: a route category, another
\* name, or none at all ("absent": the regex of extract_json_string finds
\* no match).
ResponseCategories == RouteCategories \cup {"other", "absent"}

\* The confidence a classification response gives, in hundredths;
\* NoConfidence: extract_json_number finds no number.
NoConfidence == -1

ResponseConfidences == {NoConfidence, 40, 70, 90}

\* confidence_threshold, in hundredths.
RouterThresholds == {50, 70}

ClassificationResponses ==
    [category : ResponseCategories, confidence : ResponseConfidences]

\* Mutant of ParseClassificationJson: a missing confidence counts as 0.
ParseClassificationJsonZeroDefault(response) ==
    [category |-> IF response.category = "absent" THEN "" ELSE response.category,
     confidence |-> IF response.confidence = NoConfidence THEN 0
                    ELSE response.confidence]

\* parse_classification_json: unwrap_or_default() and unwrap_or(0.5).
ParseClassificationJson(response) ==
    [category |-> IF response.category = "absent" THEN "" ELSE response.category,
     confidence |-> IF response.confidence = NoConfidence THEN 50
                    ELSE response.confidence]

NoClassification == [category |-> "none", confidence |-> 0]

NoRouterError == [kind |-> "none", category |-> "none", confidence |-> 0]

\* `classification.confidence < confidence_threshold`
LowConfidenceAtOrBelow(confidence, threshold) == confidence <= threshold

LowConfidence(confidence, threshold) == confidence < threshold

\* What route does with a classification: the handler it calls ("fallback"
\* or the category of a registered route), or the error it bails with.
DispatchRegardlessOfConfidence(classification, routes, fallback, threshold) ==
    IF classification.category \in routes
      THEN [handler |-> classification.category, error |-> NoRouterError]
      ELSE IF fallback
        THEN [handler |-> "fallback", error |-> NoRouterError]
        ELSE [handler |-> "none",
              error |-> [kind |-> "no_handler",
                         category |-> classification.category, confidence |-> 0]]

DispatchUnknownToLowConfidence(classification, routes, fallback, threshold) ==
    IF LowConfidence(classification.confidence, threshold)
         \/ classification.category \notin routes
      THEN IF fallback
             THEN [handler |-> "fallback", error |-> NoRouterError]
             ELSE [handler |-> "none",
                   error |-> [kind |-> "low_confidence", category |-> "none",
                              confidence |-> classification.confidence]]
      ELSE [handler |-> classification.category, error |-> NoRouterError]

Dispatch(classification, routes, fallback, threshold) ==
    IF LowConfidence(classification.confidence, threshold)
      THEN IF fallback
             THEN [handler |-> "fallback", error |-> NoRouterError]
             ELSE [handler |-> "none",
                   error |-> [kind |-> "low_confidence", category |-> "none",
                              confidence |-> classification.confidence]]
      ELSE IF classification.category \in routes
        THEN [handler |-> classification.category, error |-> NoRouterError]
        ELSE IF fallback
          THEN [handler |-> "fallback", error |-> NoRouterError]
          ELSE [handler |-> "none",
                error |-> [kind |-> "no_handler",
                           category |-> classification.category, confidence |-> 0]]

NoRouteResult == [handler |-> "none", classification |-> NoClassification]

\* Router::new
RouterInit ==
    /\ r_pc = "idle"
    /\ r_routes = {}
    /\ r_fallback = FALSE
    /\ r_threshold = 0
    /\ r_classification = NoClassification
    /\ r_response = [category |-> "absent", confidence |-> NoConfidence]
    /\ r_target = "none"
    /\ r_invoked = << >>
    /\ r_result = NoRouteResult
    /\ r_error = NoRouterError

\* add_route: self.routes.insert(route.category, route)
RAddRoute ==
    /\ r_pc = "idle"
    /\ \E category \in RouteCategories :
         /\ Cardinality(r_routes \cup {category}) <= MaxRoutes
         /\ r_routes' = r_routes \cup {category}
    /\ UNCHANGED << r_pc, r_fallback, r_threshold, r_classification, r_response,
                    r_target, r_invoked, r_result, r_error >>
    /\ UNCHANGED << orchVars, fanVars, voteVars, guardVars, evalVars, agentVars,
                    chainVars, safetyVars,
                    confVars >>

\* set_fallback
RSetFallback ==
    /\ r_pc = "idle"
    /\ r_fallback' = TRUE
    /\ UNCHANGED << r_pc, r_routes, r_threshold, r_classification, r_response, r_target,
                    r_invoked, r_result, r_error >>
    /\ UNCHANGED << orchVars, fanVars, voteVars, guardVars, evalVars, agentVars,
                    chainVars, safetyVars,
                    confVars >>

\* Entry of route: the classify call is issued.
RStart ==
    /\ r_pc = "idle"
    /\ \E threshold \in RouterThresholds : r_threshold' = threshold
    /\ r_pc' = "classify"
    /\ UNCHANGED << r_routes, r_fallback, r_classification, r_response, r_target, r_invoked,
                    r_result, r_error >>
    /\ UNCHANGED << orchVars, fanVars, voteVars, guardVars, evalVars, agentVars,
                    chainVars, safetyVars,
                    confVars >>

\* `self.classify(input).await?` fails.
RClassifyFail ==
    /\ r_pc = "classify"
    /\ r_pc' = "failed"
    /\ r_error' = [kind |-> "classify", category |-> "none", confidence |-> 0]
    /\ UNCHANGED << r_routes, r_fallback, r_threshold, r_classification, r_response, r_target,
                    r_invoked, r_result >>
    /\ UNCHANGED << orchVars, fanVars, voteVars, guardVars, evalVars, agentVars,
                    chainVars, safetyVars,
                    confVars >>

\* classify returns; route picks the handler and calls it, or bails.
RClassify ==
    /\ r_pc = "classify"
    /\ \E response \in ClassificationResponses :
         LET classification == ParseClassificationJson(response)
             d == Dispatch(classification, r_routes, r_fallback, r_threshold)
         IN
         /\ r_classification' = classification
         /\ r_response' = response
         /\ IF d.handler = "none"
              THEN /\ r_pc' = "failed"
                   /\ r_error' = d.error
                   /\ UNCHANGED << r_target, r_invoked >>
              ELSE /\ r_pc' = "handler"
                   /\ r_target' = d.handler
                   /\ r_invoked' = Append(r_invoked, d.handler)
                   /\ UNCHANGED r_error
    /\ UNCHANGED << r_routes, r_fallback, r_threshold, r_result >>
    /\ UNCHANGED << orchVars, fanVars, voteVars, guardVars, evalVars, agentVars,
                    chainVars, safetyVars,
                    confVars >>

\* The awaited handler returns Ok(result) or Err: `.await?`.
RHandlerFinish ==
    /\ r_pc = "handler"
    /\ \E ok \in BOOLEAN :
         IF ok
           THEN /\ r_pc' = "returned"
                /\ r_result' = [handler |-> r_target, classification |-> r_classification]
                /\ UNCHANGED r_error
           ELSE /\ r_pc' = "failed"
                /\ r_error' = [kind |-> "handler", category |-> "none", confidence |-> 0]
                /\ UNCHANGED r_result
    /\ UNCHANGED << r_routes, r_fallback, r_threshold, r_classification, r_response, r_target,
                    r_invoked >>
    /\ UNCHANGED << orchVars, fanVars, voteVars, guardVars, evalVars, agentVars,
                    chainVars, safetyVars,
                    confVars >>

RouterNext == RAddRoute \/ RSetFallback \/ RStart \/ RClassifyFail \/ RClassify
              \/ RHandlerFinish

(***************************************************************************)
(* PromptChain::execute                                                    *)
(***************************************************************************)
MaxChainSteps == 3

StepNames == {"outline", "draft"}

\* A ChainStep: its name, and whether it has a validator and a processor.
ChainSteps == [name : StepNames, validator : BOOLEAN, processor : BOOLEAN]

\* What a completion call can return, as the validator and the error
\* message see it:
\*   "valid":         the validator accepts it;
\*   "invalid":       the validator rejects it;
\*   "invalid_split": the validator rejects it, it is longer than 100 bytes
\*                    and byte 100 lies inside a multi-byte character.
OutputClasses == {"valid", "invalid", "invalid_split"}

\* A text: the completion call that produced it (0: not from a call), its
\* class, and whether a processor has been applied to it.
ChainText(call, class, processed) ==
    [call |-> call, class |-> class, processed |-> processed]

\* String::new()
EmptyString == ChainText(0, "empty", FALSE)

\* The value of the initial context's one entry.
TopicText == ChainText(0, "topic", FALSE)

\* A key that is not in the context.
Absent == ChainText(0, "absent", FALSE)

ContextKeys == StepNames \cup {"topic"}

\* The `context` execute is called with.
InitialContext == [key \in ContextKeys |-> IF key = "topic" THEN TopicText ELSE Absent]

\* (step.prompt_template)(&context): a text determined by the step and by
\* the context as it is when the prompt is formatted.
PromptOf(k, context) == [step |-> k, context |-> context]

\* A validator whose verdict is not looked at.
ValidatesAlways(step, output) == TRUE

\* `if let Some(validator) = &step.validator { if !validator(&current_output)`
Validates(step, output) == ~step.validator \/ output.class = "valid"

\* &current_output[..current_output.len().min(100)]: the index is on a
\* character boundary.
PrefixOnCharBoundary(output) == output.class # "invalid_split"

\* processor(&current_output), or current_output.clone()
ProcessedOutputRaw(step, output) == output

ProcessedOutput(step, output) ==
    IF step.processor THEN [output EXCEPT !.processed = TRUE] ELSE output

ChainHistory(name, prompt, output) ==
    [step |-> name, prompt |-> prompt, output |-> output]

NoChainError == [kind |-> "none", step |-> "none"]

NoChainResult == ChainText(0, "unset", FALSE)

\* PromptChain::new
ChainInit ==
    /\ c_pc = "idle"
    /\ c_steps = << >>
    /\ c_k = 0
    /\ c_context = InitialContext
    /\ c_current_output = EmptyString
    /\ c_history = << >>
    /\ c_prompts = << >>
    /\ c_calls = << >>
    /\ c_result = NoChainResult
    /\ c_error = NoChainError

\* add_step: self.steps.push(step)
CAddStep ==
    /\ c_pc = "idle"
    /\ Len(c_steps) < MaxChainSteps
    /\ \E step \in ChainSteps : c_steps' = Append(c_steps, step)
    /\ UNCHANGED << c_pc, c_k, c_context, c_current_output, c_history, c_prompts,
                    c_calls, c_result, c_error >>
    /\ UNCHANGED << orchVars, fanVars, voteVars, guardVars, evalVars, agentVars,
                    routerVars, safetyVars,
                    confVars >>

\* Entry of execute.
CStart ==
    /\ c_pc = "idle"
    /\ c_pc' = "loop"
    /\ c_k' = 1
    /\ c_context' = InitialContext
    /\ c_current_output' = EmptyString
    /\ UNCHANGED << c_steps, c_history, c_prompts, c_calls, c_result, c_error >>
    /\ UNCHANGED << orchVars, fanVars, voteVars, guardVars, evalVars, agentVars,
                    routerVars, safetyVars,
                    confVars >>

\* Mutant of CStepCallFails: the failure is noted and the step is tried
\* again.
CStepCallFailsRetries ==
    /\ c_pc = "loop"
    /\ c_k <= Len(c_steps)
    /\ c_error.kind = "none"
    /\ c_prompts' = Append(c_prompts, PromptOf(c_k, c_context))
    /\ c_calls' = Append(c_calls, c_k)
    /\ c_error' = [kind |-> "client", step |-> c_steps[c_k].name]
    /\ UNCHANGED << c_pc, c_steps, c_k, c_context, c_current_output, c_history, c_result >>
    /\ UNCHANGED << orchVars, fanVars, voteVars, guardVars, evalVars, agentVars,
                    routerVars, safetyVars,
                    confVars >>

\* An iteration whose completion call fails: `.context(..)?`.
CStepCallFails ==
    /\ c_pc = "loop"
    /\ c_k <= Len(c_steps)
    /\ c_prompts' = Append(c_prompts, PromptOf(c_k, c_context))
    /\ c_calls' = Append(c_calls, c_k)
    /\ c_pc' = "failed"
    /\ c_error' = [kind |-> "client", step |-> c_steps[c_k].name]
    /\ UNCHANGED << c_steps, c_k, c_context, c_current_output, c_history, c_result >>
    /\ UNCHANGED << orchVars, fanVars, voteVars, guardVars, evalVars, agentVars,
                    routerVars, safetyVars,
                    confVars >>

\* An iteration whose completion call returns an output.
CStep ==
    /\ c_pc = "loop"
    /\ c_k <= Len(c_steps)
    /\ \E class \in OutputClasses :
         LET step == c_steps[c_k]
             prompt == PromptOf(c_k, c_context)
             output == ChainText(Len(c_calls) + 1, class, FALSE)
         IN
         /\ c_prompts' = Append(c_prompts, prompt)
         /\ c_calls' = Append(c_calls, c_k)
         /\ c_current_output' = output
         /\ IF ~Validates(step, output)
              THEN \* anyhow::bail!, after formatting the output's prefix
                   /\ IF PrefixOnCharBoundary(output)
                        THEN /\ c_pc' = "failed"
                             /\ c_error' = [kind |-> "validation", step |-> step.name]
                        ELSE /\ c_pc' = "panicked"
                             /\ c_error' = [kind |-> "slice_index", step |-> step.name]
                   /\ UNCHANGED << c_k, c_context, c_history >>
              ELSE /\ c_context' = [c_context EXCEPT
                                      ![step.name] = ProcessedOutput(step, output)]
                   /\ c_history' = Append(c_history, ChainHistory(step.name, prompt, output))
                   /\ c_k' = c_k + 1
                   /\ UNCHANGED << c_pc, c_error >>
    /\ UNCHANGED << c_steps, c_result >>
    /\ UNCHANGED << orchVars, fanVars, voteVars, guardVars, evalVars, agentVars,
                    routerVars, safetyVars,
                    confVars >>

\* The loop is over: Ok(current_output).
CReturn ==
    /\ c_pc = "loop"
    /\ c_k > Len(c_steps)
    /\ c_result' = c_current_output
    /\ c_pc' = "returned"
    /\ UNCHANGED << c_steps, c_k, c_context, c_current_output, c_history, c_prompts,
                    c_calls, c_error >>
    /\ UNCHANGED << orchVars, fanVars, voteVars, guardVars, evalVars, agentVars,
                    routerVars, safetyVars,
                    confVars >>

ChainNext == CAddStep \/ CStart \/ CStepCallFails \/ CStep \/ CReturn

(***************************************************************************)
(* VotingParallelizer::safety_vote                                         *)
(***************************************************************************)
\* Texts a safety voter's completion may return.
SafetyTexts == {"SAFE", "UNSAFE", "safe", "Cannot tell"}

\* upper.contains("SAFE") && !upper.contains("UNSAFE"), text by text.
SafeAndNotUnsafe(text) ==
    CASE text = "SAFE" -> TRUE
      [] text = "UNSAFE" -> FALSE
      [] text = "safe" -> TRUE
      [] text = "Cannot tell" -> FALSE
      [] text = "" -> FALSE

\* What a safety voter's create_message call yields.
SafetyResponses ==
    { [kind |-> "err", text |-> ""] } \cup { [kind |-> "ok", text |-> t] : t \in SafetyTexts }

\* Mutant of SafetyVoteOf: a voter whose call failed does not count against.
SafetyVoteOfErrSafe(response) ==
    IF response.kind = "err" THEN TRUE ELSE SafeAndNotUnsafe(response.text)

\* The body of a safety voter unit: unwrap_or_default() turns a failed call
\* into the empty text.
SafetyVoteOf(response) ==
    SafeAndNotUnsafe(IF response.kind = "err" THEN "" ELSE response.text)

PendingSafetyVoter == [done |-> FALSE, response |-> [kind |-> "err", text |-> ""], vote |-> FALSE]

\* The SafetyVotingResult built from `votes`.
SafetyVotingResultOf(votes) ==
    LET safe_votes == Cardinality({ i \in DOMAIN votes : votes[i] })
    IN  [is_safe |-> \A i \in DOMAIN votes : votes[i],
         safe_votes |-> safe_votes,
         unsafe_votes |-> Len(votes) - safe_votes,
         unanimous |-> \/ \A i \in DOMAIN votes : votes[i]
                       \/ \A i \in DOMAIN votes : ~votes[i]]

NoSafetyVotingResult ==
    [is_safe |-> FALSE, safe_votes |-> 0, unsafe_votes |-> 0, unanimous |-> FALSE]

SafetyInit ==
    /\ s_pc = "start"
    /\ s_handles = << >>
    /\ s_result = NoSafetyVotingResult

\* The map over 0..voter_count that tokio::spawn's one unit per voter.
SSpawn ==
    /\ s_pc = "start"
    /\ \E voter_count \in 0..MaxVoters :
         s_handles' = [ i \in 1..voter_count |-> PendingSafetyVoter ]
    /\ s_pc' = "join"
    /\ UNCHANGED s_result
    /\ UNCHANGED << orchVars, fanVars, voteVars, guardVars, evalVars, agentVars,
                    routerVars, chainVars,
                    confVars >>

\* One safety voter unit runs to its end.
SUnitFinish ==
    /\ \E i \in DOMAIN s_handles :
         /\ ~s_handles[i].done
         /\ \E response \in SafetyResponses :
              s_handles' = [s_handles EXCEPT ![i] =
                  [done |-> TRUE, response |-> response, vote |-> SafetyVoteOf(response)]]
    /\ UNCHANGED << s_pc, s_result >>
    /\ UNCHANGED << orchVars, fanVars, voteVars, guardVars, evalVars, agentVars,
                    routerVars, chainVars,
                    confVars >>

\* join_all and the Ok(SafetyVotingResult).
SJoin ==
    /\ s_pc = "join"
    /\ \A i \in DOMAIN s_handles : s_handles[i].done
    /\ s_result' = SafetyVotingResultOf([ i \in DOMAIN s_handles |-> s_handles[i].vote ])
    /\ s_pc' = "returned"
    /\ UNCHANGED s_handles
    /\ UNCHANGED << orchVars, fanVars, voteVars, guardVars, evalVars, agentVars,
                    routerVars, chainVars,
                    confVars >>

SafetyNext == SSpawn \/ SUnitFinish \/ SJoin

(***************************************************************************)
(* ConfidenceBasedOptimizer::generate_with_confidence                      *)
(***************************************************************************)
MaxAttempts == 3

\* Confidences are in hundredths: 100 is 1.0.
FullConfidence == 100

\* unwrap_or(0.5)
DefaultConfidence == 50

\* confidence_threshold: met by any attempt, by some, by none.
ConfidenceThresholds == {0, 50, 80, 110}

\* What a response holds where a confidence is looked for: no
\* "CONFIDENCE:" followed by digits or dots, digits and dots that are not a
\* number ("1.2.3"), or a number (150: "1.5").
ConfidenceMarkers ==
    { [kind |-> "none", value |-> 0], [kind |-> "malformed", value |-> 0] }
      \cup { [kind |-> "number", value |-> v] : v \in {0, 30, 50, 80, 150} }

\* The response of completion call n: its text apart from the confidence
\* line, and the confidence marker.
ConfidenceResponses(n) == [body : {n}, marker : ConfidenceMarkers]

\* v.clamp(0.0, 1.0), for a v the pattern [0-9.]+ can match
Clamp(v) == IF v > FullConfidence THEN FullConfidence ELSE v

ParseConfidenceResponse(response) ==
    [output |-> response.body,
     confidence |-> IF response.marker.kind = "number"
                      THEN Clamp(response.marker.value)
                      ELSE DefaultConfidence]

\* `let temperature = if i == 0 { None } else { Some(0.3) };`
TemperatureOf(i) == IF i = 0 THEN "None" ELSE "0.3"

AttemptRecord(i, parsed) ==
    [attempt |-> i + 1, output |-> parsed.output, confidence |-> parsed.confidence]

\* An update of the best that also replaces it on an equal confidence.
BestAfterOrEqual(best, parsed) ==
    IF parsed.confidence >= best.confidence THEN parsed ELSE best

\* `if confidence > best_confidence { best_confidence = ..; best_output = .. }`
BestAfter(best, parsed) ==
    IF parsed.confidence > best.confidence THEN parsed ELSE best

ConfidenceResult(output, confidence, attempts, met_threshold) ==
    [output |-> output, confidence |-> confidence, attempts |-> attempts,
     met_threshold |-> met_threshold]

\* No ConfidenceResult has been returned.
NoConfidenceResult == ConfidenceResult(EmptyText, 0, << >>, FALSE)

ConfInit ==
    /\ k_pc = "idle"
    /\ k_threshold = 0 /\ k_max_attempts = 0 /\ k_i = 0
    /\ k_attempts = << >>
    /\ k_best_output = EmptyText /\ k_best_confidence = 0
    /\ k_calls = << >> /\ k_responses = << >>
    /\ k_result = NoConfidenceResult

\* generate_with_confidence is called: with max_attempts = 0 the loop body
\* never runs; otherwise the first completion call is made.
KStart ==
    /\ k_pc = "idle"
    /\ \E threshold \in ConfidenceThresholds, max_attempts \in 0..MaxAttempts :
         /\ k_threshold' = threshold
         /\ k_max_attempts' = max_attempts
         /\ IF max_attempts = 0
              THEN /\ k_result' = ConfidenceResult(k_best_output, k_best_confidence,
                                                   k_attempts, FALSE)
                   /\ k_pc' = "returned"
                   /\ UNCHANGED k_calls
              ELSE /\ k_calls' = Append(k_calls, TemperatureOf(0))
                   /\ k_pc' = "awaiting"
                   /\ UNCHANGED k_result
    /\ UNCHANGED << k_i, k_attempts, k_best_output, k_best_confidence, k_responses >>
    /\ UNCHANGED << orchVars, fanVars, voteVars, guardVars, evalVars, agentVars,
                    routerVars, chainVars, safetyVars >>

\* create_message returns an error: `.await?`
KCallFails ==
    /\ k_pc = "awaiting"
    /\ k_pc' = "failed"
    /\ UNCHANGED << k_threshold, k_max_attempts, k_i, k_attempts, k_best_output,
                    k_best_confidence, k_calls, k_responses, k_result >>
    /\ UNCHANGED << orchVars, fanVars, voteVars, guardVars, evalVars, agentVars,
                    routerVars, chainVars, safetyVars >>

\* create_message returns a response: the rest of the loop body, then the
\* return, or the next iteration up to its completion call.
KResponse ==
    /\ k_pc = "awaiting"
    /\ \E response \in ConfidenceResponses(k_i + 1) :
         LET parsed == ParseConfidenceResponse(response)
             attempts == Append(k_attempts, AttemptRecord(k_i, parsed))
             best == BestAfter([output |-> k_best_output,
                                confidence |-> k_best_confidence], parsed)
         IN
         /\ k_responses' = Append(k_responses, response)
         /\ k_attempts' = attempts
         /\ k_best_output' = best.output
         /\ k_best_confidence' = best.confidence
         /\ IF parsed.confidence >= k_threshold
              THEN /\ k_result' = ConfidenceResult(parsed.output, parsed.confidence,
                                                   attempts, TRUE)
                   /\ k_pc' = "returned"
                   /\ UNCHANGED << k_i, k_calls >>
              ELSE IF k_i + 1 = k_max_attempts
                THEN /\ k_result' = ConfidenceResult(best.output, best.confidence,
                                                     attempts, FALSE)
                     /\ k_pc' = "returned"
                     /\ UNCHANGED << k_i, k_calls >>
                ELSE /\ k_i' = k_i + 1
                     /\ k_calls' = Append(k_calls, TemperatureOf(k_i + 1))
                     /\ UNCHANGED << k_pc, k_result >>
    /\ UNCHANGED << k_threshold, k_max_attempts >>
    /\ UNCHANGED << orchVars, fanVars, voteVars, guardVars, evalVars, agentVars,
                    routerVars, chainVars, safetyVars >>

ConfNext == KStart \/ KCallFails \/ KResponse

(***************************************************************************)
(* Specifications: one invocation of one strategy                          *)
(***************************************************************************)
Init ==
    /\ OrchInit /\ FanInit /\ VoteInit /\ GuardInit /\ EvalInit /\ AgentInit
    /\ RouterInit /\ ChainInit /\ SafetyInit
    /\ ConfInit

SpecOrch == Init /\ [][OrchNext]_vars

SpecFan == Init /\ [][FanNext]_vars

SpecVote == Init /\ [][VoteNext]_vars

SpecGuard == Init /\ [][GuardNext]_vars

SpecEval == Init /\ [][EvalNext]_vars

SpecAgent == Init /\ [][AgentNext]_vars

\* run_with_stop is sequential and suspends only at its completion and tool
\* calls; each of them returns or fails, so the invocation keeps stepping.
SpecAgentLive == Init /\ [][AgentNext]_vars /\ WF_vars(AgentNext)

SpecRouter == Init /\ [][RouterNext]_vars

SpecChain == Init /\ [][ChainNext]_vars

SpecSafety == Init /\ [][SafetyNext]_vars

SpecConf == Init /\ [][ConfNext]_vars

\* One invocation of either budgeted strategy: optimize or run_with_stop is
\* invoked, the other is not.
EvalNotInvoked ==
    /\ e_pc = "idle"
    /\ e_max_iterations = 0 /\ e_threshold = 0 /\ e_i = 0
    /\ e_current_output = EmptyText /\ e_last_evaluation = NoEvaluation
    /\ e_history = << >> /\ e_gen_calls = << >> /\ e_eval_calls = 0
    /\ e_result = NoOptimizationResult /\ e_error = "none"

AgentNotInvoked ==
    /\ a_pc = "idle"
    /\ a_max_steps = 0 /\ a_should_stop = "never"
    /\ a_total_steps = 0 /\ a_tool_calls = 0 /\ a_action_history = << >>
    /\ a_is_complete = FALSE /\ a_final_result = "none" /\ a_conversation = << >>
    /\ a_completion_calls = 0 /\ a_tool_invocations = << >>
    /\ a_response = NoResponse
    /\ a_result = NoAgentResult /\ a_error = "none"

InitBudget ==
    /\ OrchInit /\ FanInit /\ VoteInit /\ GuardInit /\ RouterInit /\ ChainInit
    /\ SafetyInit
    /\ ConfInit
    /\ \/ EvalInit /\ AgentNotInvoked
       \/ EvalNotInvoked /\ AgentInit

SpecBudget == InitBudget /\ [][EvalNext \/ AgentNext]_vars

\* One invocation of one of the four fan-out methods: a method is entered
\* only while none of them has been.
NoFanOutInvoked == f_pc = "start" /\ v_pc = "start" /\ s_pc = "start" /\ g_pc = "start"

FanOutNext ==
    \/ NoFanOutInvoked /\ (FSpawn \/ VSpawn \/ SSpawn \/ GSpawn)
    \/ FUnitFinish \/ FJoin
    \/ VUnitFinish \/ VJoin
    \/ SUnitFinish \/ SJoin
    \/ GMainFinish \/ GCheckFinish \/ GAwaitMain \/ GJoin

SpecFanOut == Init /\ [][FanOutNext]_vars

RouterNotInvoked ==
    /\ r_pc = "unused"
    /\ r_routes = {} /\ r_fallback = FALSE /\ r_threshold = 0
    /\ r_classification = NoClassification
    /\ r_response = [category |-> "absent", confidence |-> NoConfidence]
    /\ r_target = "none" /\ r_invoked = << >>
    /\ r_result = NoRouteResult /\ r_error = NoRouterError

ChainNotInvoked ==
    /\ c_pc = "unused"
    /\ c_steps = << >> /\ c_k = 0 /\ c_context = InitialContext
    /\ c_current_output = EmptyString /\ c_history = << >>
    /\ c_prompts = << >> /\ c_calls = << >>
    /\ c_result = NoChainResult /\ c_error = NoChainError

\* One invocation of one of the four sequential strategies.
InitSequential ==
    /\ OrchInit /\ FanInit /\ VoteInit /\ GuardInit /\ SafetyInit
    /\ ConfInit
    /\ \/ ChainInit /\ EvalNotInvoked /\ RouterNotInvoked /\ AgentNotInvoked
       \/ ChainNotInvoked /\ EvalInit /\ RouterNotInvoked /\ AgentNotInvoked
       \/ ChainNotInvoked /\ EvalNotInvoked /\ RouterInit /\ AgentNotInvoked
       \/ ChainNotInvoked /\ EvalNotInvoked /\ RouterNotInvoked /\ AgentInit

SpecSequential ==
    InitSequential /\ [][ChainNext \/ EvalNext \/ RouterNext \/ AgentNext]_vars

(***************************************************************************)
(* Repeated invocations of one instance.  The caller that got a result or  *)
(* an error back calls the same method of the same instance again: the     *)
(* instance keeps its fields, and the histories of calls made (which       *)
(* belong to the observer, not to the instance) start afresh.              *)
(***************************************************************************)
\* One record may be left over when a chain is invoked again, which bounds
\* the length self.history can reach.
MaxLeftOver == 1

\* PromptChain::execute is called again on the same chain.
CInvokeAgain ==
    /\ c_pc \in {"returned", "failed"}
    /\ Len(c_history) <= MaxLeftOver
    /\ c_pc' = "idle"
    /\ c_prompts' = << >>
    /\ c_calls' = << >>
    /\ c_result' = NoChainResult
    /\ c_error' = NoChainError
    /\ UNCHANGED << c_steps, c_k, c_context, c_current_output, c_history >>
    /\ UNCHANGED << orchVars, fanVars, voteVars, guardVars, evalVars, agentVars,
                    routerVars, safetyVars,
                    confVars >>

\* EvaluatorOptimizer::optimize is called again on the same optimizer.
EInvokeAgain ==
    /\ e_pc \in {"returned", "failed"}
    /\ e_pc' = "start"
    /\ e_gen_calls' = << >>
    /\ e_eval_calls' = 0
    /\ e_result' = NoOptimizationResult
    /\ e_error' = "none"
    /\ UNCHANGED << e_max_iterations, e_threshold, e_i, e_current_output,
                    e_last_evaluation, e_history >>
    /\ UNCHANGED << orchVars, fanVars, voteVars, guardVars, agentVars, routerVars,
                    chainVars, safetyVars,
                    confVars >>

\* AutonomousAgent::run_with_stop is called again on the same agent.
AInvokeAgain ==
    /\ a_pc \in {"returned", "failed"}
    /\ a_pc' = "start"
    /\ a_completion_calls' = 0
    /\ a_tool_invocations' = << >>
    /\ a_response' = NoResponse
    /\ a_result' = NoAgentResult
    /\ a_error' = "none"
    /\ UNCHANGED << a_max_steps, a_should_stop, a_total_steps, a_tool_calls,
                    a_action_history, a_is_complete, a_final_result, a_conversation >>
    /\ UNCHANGED << orchVars, fanVars, voteVars, guardVars, evalVars, routerVars,
                    chainVars, safetyVars,
                    confVars >>

\* One instance of one of the three strategies that keep state in the
\* instance, invoked any number of times.
InitFresh ==
    /\ OrchInit /\ FanInit /\ VoteInit /\ GuardInit /\ RouterNotInvoked /\ SafetyInit
    /\ ConfInit
    /\ \/ ChainInit /\ EvalNotInvoked /\ AgentNotInvoked
       \/ ChainNotInvoked /\ EvalInit /\ AgentNotInvoked
       \/ ChainNotInvoked /\ EvalNotInvoked /\ AgentInit

SpecFresh ==
    InitFresh /\ [][ChainNext \/ CInvokeAgain \/ EvalNext \/ EInvokeAgain
                     \/ AgentNext \/ AInvokeAgain]_vars

(***************************************************************************)
(* Task graphs as graphs: the reading the properties below are stated in,  *)
(* defined on the decomposition itself, independently of the sort.         *)
(***************************************************************************)
IdsOf(g) == { g[i].id : i \in DOMAIN g }

UniqueIds(g) == \A i, j \in DOMAIN g : i # j => g[i].id # g[j].id

DepsClosed(g) == \A i \in DOMAIN g : Range(g[i].dependencies) \subseteq IdsOf(g)

\* The declared dependencies of the subtasks carrying id.
DeclaredDeps(g, id) == UNION { Range(g[i].dependencies) : i \in { j \in DOMAIN g : g[j].id = id } }

\* The ids of the graph reachable from the ids in S along declared dependencies.
RECURSIVE ReachableFrom(_, _)
ReachableFrom(g, S) ==
    LET N == S \cup (IdsOf(g) \cap UNION { DeclaredDeps(g, x) : x \in S })
    IN  IF N = S THEN S ELSE ReachableFrom(g, N)

\* id lies on a dependency cycle: it is reachable from its own dependencies.
OnCycle(g, id) == id \in ReachableFrom(g, IdsOf(g) \cap DeclaredDeps(g, id))

HasCycle(g) == \E id \in IdsOf(g) : OnCycle(g, id)

\* execute got past the loop over sorted_subtasks.
OAllAttempted == o_synth_calls > 0

(***************************************************************************)
(* C1: for a task graph with unique ids, dependencies naming only ids of   *)
(* the graph and no cycle, the sort does not fail, every Worker::execute   *)
(* call for a node comes after a call for each of its declared             *)
(* dependencies, and by the time of synthesis every node was executed      *)
(* exactly once.                                                           *)
(***************************************************************************)
C1_DependenciesExecutedFirst ==
    ( /\ o_pc \notin {"decompose", "sort"}
      /\ o_subtasks # << >>
      /\ UniqueIds(o_subtasks) /\ DepsClosed(o_subtasks) /\ ~HasCycle(o_subtasks) )
    => /\ o_error.kind # "circular"
       /\ \A k \in DOMAIN o_calls :
            \A d \in DeclaredDeps(o_subtasks, o_calls[k].id) :
               \E j \in 1..(k - 1) : o_calls[j].id = d
       /\ OAllAttempted =>
            /\ Len(o_calls) = Len(o_subtasks)
            /\ { o_calls[k].id : k \in DOMAIN o_calls } = IdsOf(o_subtasks)

\* A three-node graph whose first listed node has two dependencies, one of
\* them with a dependency of its own (forward references), ran to the end.
C1_Witness ==
    /\ o_pc = "returned"
    /\ Len(o_subtasks) = 3 /\ UniqueIds(o_subtasks) /\ DepsClosed(o_subtasks)
    /\ Len(o_subtasks[1].dependencies) = 2
    /\ o_subtasks[2].dependencies # << >>
    /\ Len(o_calls) = 3

(***************************************************************************)
(* C2 as stated: for every task graph that contains a dependency cycle,    *)
(* execute fails with a circular-dependency error naming an id on the      *)
(* cycle, with no worker invoked and no synthesis call made.               *)
(***************************************************************************)
C2_Original_EveryCycleFails ==
    ( o_pc \notin {"decompose", "sort"} /\ HasCycle(o_subtasks) )
    => /\ o_pc = "failed"
       /\ o_error.kind = "circular"
       /\ OnCycle(o_subtasks, o_error.id)
       /\ o_calls = << >>
       /\ o_synth_calls = 0

(***************************************************************************)
(* C2 amended: for every task graph with unique ids that contains a        *)
(* dependency cycle (a self-dependency included; dependencies on ids       *)
(* outside the graph allowed), execute fails with a circular-dependency    *)
(* error naming an id on the cycle, with no worker invoked and no          *)
(* synthesis call made.                                                    *)
(***************************************************************************)
C2_UniqueIdCycleFails ==
    ( /\ o_pc \notin {"decompose", "sort"}
      /\ UniqueIds(o_subtasks)
      /\ HasCycle(o_subtasks) )
    => /\ o_pc = "failed"
       /\ o_error.kind = "circular"
       /\ OnCycle(o_subtasks, o_error.id)
       /\ o_calls = << >>
       /\ o_synth_calls = 0

\* A cycle through three distinct nodes was reported.
C2_Witness ==
    /\ o_pc = "failed" /\ o_error.kind = "circular"
    /\ Len(o_subtasks) = 3 /\ UniqueIds(o_subtasks)
    /\ \A i \in DOMAIN o_subtasks : o_subtasks[i].id \notin Range(o_subtasks[i].dependencies)
    /\ \A id \in IdsOf(o_subtasks) : OnCycle(o_subtasks, id)

(***************************************************************************)
(* C3: execute_parallel on N subtasks of which K completion calls fail     *)
(* returns exactly N entries: K with success = false and an error (and no  *)
(* result), N-K with success = true and a result (and no error), whichever *)
(* units fail and in whatever order they finish; it has no error return.   *)
(***************************************************************************)
C3_FanOutReturnsEveryOutcome ==
    /\ f_pc \in {"start", "join", "returned"}
    /\ f_pc = "returned" =>
         LET N == Len(f_subtasks)
             K == Cardinality({ i \in DOMAIN f_handles : ~f_handles[i].call_ok })
             failed == { j \in DOMAIN f_returned :
                           ~f_returned[j].success /\ f_returned[j].error /\ ~f_returned[j].result }
             succeeded == { j \in DOMAIN f_returned :
                              f_returned[j].success /\ f_returned[j].result /\ ~f_returned[j].error }
         IN  /\ Len(f_finish_order) = N
             /\ Len(f_returned) = N
             /\ Cardinality(failed) = K
             /\ Cardinality(succeeded) = N - K

\* Three subtasks, the last finished first, exactly the second failed.
C3_Witness ==
    /\ f_pc = "returned"
    /\ Len(f_subtasks) = 3
    /\ f_finish_order[1] = 3
    /\ ~f_handles[2].call_ok /\ f_handles[1].call_ok /\ f_handles[3].call_ok
    /\ Len(f_returned) = 3

(***************************************************************************)
(* The votes as the voters cast them, read off the responses: a response   *)
(* is a valid vote when it is an integer in 1..number-of-options.          *)
(***************************************************************************)
CastValid(i) ==
    /\ v_handles[i].response.kind = "number"
    /\ v_handles[i].response.value \in 1..v_option_count

\* The number of voters that answered k (1-based) with a valid vote.
CastFor(k) ==
    Cardinality({ i \in DOMAIN v_handles : CastValid(i) /\ v_handles[i].response.value = k })

CastTotal == Cardinality({ i \in DOMAIN v_handles : CastValid(i) })

RECURSIVE SumUpTo(_, _)
\* f[0] + ... + f[n-1]
SumUpTo(f, n) == IF n = 0 THEN 0 ELSE f[n - 1] + SumUpTo(f, n - 1)

(***************************************************************************)
(* C4: vote reports consensus = true iff the winning option's count is     *)
(* strictly more than half of the valid votes cast; votes [1,1,2] over two *)
(* options give winning index 0 with consensus, votes [1,2] no consensus.  *)
(***************************************************************************)
C4_ConsensusIffMoreThanHalf ==
    v_pc = "returned" =>
      /\ v_result.consensus <=> (2 * CastFor(v_result.winning_index + 1) > CastTotal)
      /\ (v_option_count = 2 /\ CastTotal = 3 /\ CastFor(1) = 2 /\ CastFor(2) = 1)
           => (v_result.winning_index = 0 /\ v_result.consensus)
      /\ (v_option_count = 2 /\ CastTotal = 2 /\ CastFor(1) = 1 /\ CastFor(2) = 1)
           => ~v_result.consensus

\* Votes [1,1,2] over two options, with consensus reported.
C4_Witness ==
    /\ v_pc = "returned"
    /\ v_option_count = 2 /\ Len(v_handles) = 3
    /\ CastFor(1) = 2 /\ CastFor(2) = 1
    /\ v_result.consensus

(***************************************************************************)
(* C5: a voter whose call fails or whose response is not an integer in     *)
(* 1..number-of-options enters no tally: total_votes is the number of      *)
(* voters with a valid response, the per-option counts sum to total_votes, *)
(* and the count of option index k-1 is the number of voters answering k.  *)
(***************************************************************************)
C5_OnlyValidVotesTallied ==
    v_pc = "returned" =>
      /\ v_result.total_votes = CastTotal
      /\ DOMAIN v_result.vote_counts = 0..(v_option_count - 1)
      /\ SumUpTo(v_result.vote_counts, v_option_count) = v_result.total_votes
      /\ \A k \in 1..v_option_count : v_result.vote_counts[k - 1] = CastFor(k)

\* Three voters over two options: a failed call, an out-of-range or
\* non-numeric answer, and one valid vote for option 2.
C5_Witness ==
    /\ v_pc = "returned"
    /\ v_option_count = 2 /\ Len(v_handles) = 3
    /\ \E i, j, k \in DOMAIN v_handles :
         /\ v_handles[i].response.kind = "err"
         /\ v_handles[j].response.kind = "number" /\ v_handles[j].response.value = 3
         /\ v_handles[k].response.kind = "number" /\ v_handles[k].response.value = 2
    /\ v_result.total_votes = 1
    /\ v_result.vote_counts[1] = 1

(***************************************************************************)
(* C6: when the primary task succeeds, the returned result carries the     *)
(* primary's output iff every one of the M checks passed; if some check    *)
(* did not pass the result is absent and blocked = true, and if all passed *)
(* (M = 0 included) blocked = false.                                       *)
(***************************************************************************)
C6_ResultReleasedIffAllPass ==
    g_pc = "returned" =>
      LET allPassed == \A i \in DOMAIN g_handles : g_handles[i].out.passed
      IN  /\ g_main.done /\ g_main.call_ok
          /\ g_result.result \in {"main_result", "none"}
          /\ g_result.result = "main_result" <=> allPassed
          /\ ~allPassed => (g_result.result = "none" /\ g_result.blocked)
          /\ allPassed => ~g_result.blocked
          /\ Len(g_handles) = 0 => (~g_result.blocked /\ g_result.result = "main_result")

\* Three checks, exactly one of which did not pass: the result is withheld.
C6_Witness ==
    /\ g_pc = "returned"
    /\ Len(g_handles) = 3
    /\ Cardinality({ i \in DOMAIN g_handles : ~g_handles[i].out.passed }) = 1
    /\ g_result.result = "none" /\ g_result.blocked

(***************************************************************************)
(* C7: blocking_guardrails holds exactly the names of the checks that did  *)
(* not pass, each once; a check whose completion call failed is among      *)
(* them; and the list is non-empty iff blocked = true.                     *)
(***************************************************************************)
C7_BlockingNamesFailingChecks ==
    g_pc = "returned" =>
      LET notPassed == { i \in DOMAIN g_handles : ~g_handles[i].out.passed }
          blocking == g_result.blocking_guardrails
      IN  /\ Range(blocking) = { << "guardrail", i - 1 >> : i \in notPassed }
          /\ Len(blocking) = Cardinality(notPassed)
          /\ \A i \in DOMAIN g_handles :
               g_handles[i].response.kind = "err" => << "guardrail", i - 1 >> \in Range(blocking)
          /\ (blocking # << >>) <=> g_result.blocked

\* Three checks: the first passed, the second's call failed, the third
\* answered FAIL; the second and third are reported.
C7_Witness ==
    /\ g_pc = "returned"
    /\ Len(g_handles) = 3
    /\ g_handles[1].out.passed
    /\ g_handles[2].response.kind = "err"
    /\ g_handles[3].response = [kind |-> "ok", text |-> "FAIL"]
    /\ g_result.blocking_guardrails = << << "guardrail", 1 >>, << "guardrail", 2 >> >>

(***************************************************************************)
(* C8: optimize stops at the first iteration i whose score is >= the       *)
(* threshold: it returns met_threshold = true, iterations = i, the score   *)
(* and output of iteration i and a history of exactly i records, with i    *)
(* generation and i evaluation calls made and none after; scores           *)
(* [0.5, 0.7, 0.9] with threshold 0.85 and budget 5 stop after exactly 3   *)
(* iterations with final_score 0.9.                                        *)
(***************************************************************************)
C8_StopsAtFirstIterationMeetingThreshold ==
    /\ \A k \in DOMAIN e_history :
         e_history[k].evaluation.overall_score >= e_threshold
           => /\ k = Len(e_history)
              /\ e_pc = "returned"
              /\ e_result.met_threshold
    /\ (e_pc = "returned" /\ e_result.met_threshold) =>
         LET i == e_result.iterations
         IN  /\ i >= 1 /\ i = Len(e_history)
             /\ e_history[i].iteration = i
             /\ e_history[i].evaluation.overall_score >= e_threshold
             /\ \A j \in 1..(i - 1) : e_history[j].evaluation.overall_score < e_threshold
             /\ e_result.final_score = e_history[i].evaluation.overall_score
             /\ e_result.final_output = e_history[i].output
             /\ e_result.history = e_history
             /\ Len(e_gen_calls) = i
             /\ e_eval_calls = i
    /\ ( /\ e_pc = "returned" /\ e_max_iterations = 5 /\ e_threshold = 85
         /\ Len(e_history) >= 3
         /\ e_history[1].evaluation.overall_score = 50
         /\ e_history[2].evaluation.overall_score = 70
         /\ e_history[3].evaluation.overall_score = 90 )
       => /\ e_result.iterations = 3
          /\ e_result.met_threshold
          /\ e_result.final_score = 90

\* Scores 0.5, 0.7, 0.9 against threshold 0.85 with a budget of 5.
C8_Witness ==
    /\ e_pc = "returned"
    /\ e_max_iterations = 5 /\ e_threshold = 85
    /\ Len(e_history) = 3
    /\ e_history[1].evaluation.overall_score = 50
    /\ e_history[2].evaluation.overall_score = 70
    /\ e_history[3].evaluation.overall_score = 90
    /\ e_result.met_threshold

(***************************************************************************)
(* C9: when the iteration budget is exhausted without a score reaching the *)
(* threshold, optimize returns met_threshold = false with the score and    *)
(* output of the iteration with the highest score of the run, the earliest *)
(* one when several iterations share that score.                           *)
(***************************************************************************)
C9_ReturnsEarliestHighestScore ==
    (e_pc = "returned" /\ ~e_result.met_threshold) =>
      LET top == Max({ e_history[k].evaluation.overall_score : k \in DOMAIN e_history })
          earliest == CHOOSE k \in DOMAIN e_history :
                        /\ e_history[k].evaluation.overall_score = top
                        /\ \A j \in 1..(k - 1) : e_history[j].evaluation.overall_score < top
      IN  /\ Len(e_history) = e_max_iterations
          /\ e_result.final_score = top
          /\ e_result.final_output = e_history[earliest].output

(***************************************************************************)
(* C10: budget exhaustion is never an error.  Whenever optimize has used   *)
(* up its iteration budget without a score reaching the threshold, or      *)
(* run_with_stop has used up its step budget without a "complete" action   *)
(* (every completion call having succeeded, a budget of 0 included), the   *)
(* next thing the invocation does is to return a normal result flagged     *)
(* incomplete (met_threshold = false / success = false).                   *)
(***************************************************************************)
C10_BudgetExhaustionReturnsIncomplete ==
    [][ /\ (e_pc = "select_best")
            => (e_pc' = "returned" /\ ~e_result'.met_threshold)
        /\ (a_pc = "loop" /\ ~(a_total_steps < a_max_steps) /\ ~a_is_complete)
            => (a_pc' = "returned" /\ ~a_result'.success) ]_vars

(***************************************************************************)
(* Router: what a route invocation has done once classify has returned.    *)
(***************************************************************************)
RClassified == r_pc \in {"handler", "returned", "failed"} /\ r_error.kind # "classify"

\* The registered route handlers among the handlers invoked.
RouteHandlersInvoked == { r_invoked[i] : i \in DOMAIN r_invoked } \cap r_routes

(***************************************************************************)
(* C11: in Router::route, a classification whose confidence is strictly    *)
(* below the threshold invokes no registered route handler, even when its  *)
(* category is registered: the fallback handler is invoked (once) if one   *)
(* is set, otherwise the call fails with a low-confidence error.           *)
(* Confidence 0.4 against threshold 0.7 without a fallback fails.          *)
(***************************************************************************)
C11_LowConfidenceNeverDispatches ==
    /\ (RClassified /\ r_classification.confidence < r_threshold) =>
         /\ RouteHandlersInvoked = {}
         /\ IF r_fallback
              THEN r_invoked = << "fallback" >> /\ r_error.kind \in {"none", "handler"}
              ELSE /\ r_invoked = << >>
                   /\ r_pc = "failed"
                   /\ r_error.kind = "low_confidence"
                   /\ r_error.confidence = r_classification.confidence
    /\ ( /\ RClassified /\ r_classification.confidence = 40 /\ r_threshold = 70
         /\ ~r_fallback )
       => (r_pc = "failed" /\ r_error.kind = "low_confidence" /\ r_invoked = << >>)

\* Confidence 0.4, threshold 0.7, the category registered, no fallback.
C11_Witness ==
    /\ r_pc = "failed"
    /\ r_classification.confidence = 40 /\ r_threshold = 70
    /\ r_classification.category \in r_routes
    /\ ~r_fallback
    /\ r_error.kind = "low_confidence"

(***************************************************************************)
(* C12: in Router::route, a classification whose confidence is at or above *)
(* the threshold and whose category has a registered route invokes exactly *)
(* that route's handler, once; neither the fallback nor another route's    *)
(* handler is invoked.  Confidence 0.9 against threshold 0.7 dispatches to *)
(* the matching handler.                                                   *)
(***************************************************************************)
C12_ConfidentRegisteredDispatches ==
    /\ ( /\ RClassified /\ r_classification.confidence >= r_threshold
         /\ r_classification.category \in r_routes )
       => /\ r_invoked = << r_classification.category >>
          /\ r_error.kind \in {"none", "handler"}
          /\ r_pc = "returned" => r_result.handler = r_classification.category
    /\ ( /\ r_pc = "returned" /\ r_classification.confidence = 90 /\ r_threshold = 70
         /\ r_classification.category \in r_routes )
       => r_result = [handler |-> r_classification.category,
                      classification |-> r_classification]

\* Confidence equal to the threshold, two routes and a fallback registered.
C12_Witness ==
    /\ r_pc = "returned"
    /\ r_classification.confidence = 70 /\ r_threshold = 70
    /\ r_classification.category \in r_routes
    /\ Cardinality(r_routes) = 2 /\ r_fallback
    /\ r_invoked = << r_classification.category >>

(***************************************************************************)
(* C13: in Router::route, a classification whose confidence is at or above *)
(* the threshold but whose category has no registered route invokes the    *)
(* fallback handler if one is set, and otherwise fails with an error that  *)
(* names the unknown category.                                             *)
(***************************************************************************)
C13_UnregisteredCategoryFallsBack ==
    ( /\ RClassified /\ r_classification.confidence >= r_threshold
      /\ r_classification.category \notin r_routes )
    => IF r_fallback
         THEN /\ r_invoked = << "fallback" >>
              /\ r_error.kind \in {"none", "handler"}
              /\ r_pc = "returned" => r_result.handler = "fallback"
         ELSE /\ r_invoked = << >>
              /\ r_pc = "failed"
              /\ r_error.kind = "no_handler"
              /\ r_error.category = r_classification.category

\* An unregistered category at confidence 0.9, routes registered, no fallback.
C13_Witness ==
    /\ r_pc = "failed"
    /\ r_classification.confidence = 90 /\ r_threshold = 70
    /\ r_classification.category = "other"
    /\ r_routes # {} /\ ~r_fallback
    /\ r_error = [kind |-> "no_handler", category |-> "other", confidence |-> 0]

(***************************************************************************)
(* AutonomousAgent: steps of the loop, told apart by what the completion   *)
(* call of the step returned.                                              *)
(***************************************************************************)
\* A step in which a completion call returned the response a_response'.
AResponseReceived ==
    a_completion_calls' = a_completion_calls + 1 /\ a_error' # "completion"

LastOf(s) == s[Len(s)]

(***************************************************************************)
(* C14: in the agent loop, a response whose action is "complete" sets the  *)
(* completion flag, sets the final result to the given result (to the raw  *)
(* response text when none is given), invokes no tool and ends the loop:   *)
(* the next step returns success = true without another completion call.   *)
(* When this happens on step 1 the result has total_steps = 1 and          *)
(* tool_calls = 0.                                                         *)
(***************************************************************************)
C14_CompleteActionEndsLoop ==
    [][ /\ ( /\ AResponseReceived
             /\ a_response'.parse = "action" /\ a_response'.action = "complete" )
           => /\ a_is_complete'
              /\ a_final_result' = (IF a_response'.result THEN "result" ELSE "response")
              /\ a_tool_invocations' = a_tool_invocations
              /\ a_tool_calls' = a_tool_calls
              /\ a_pc' = "loop"
        /\ (a_pc = "loop" /\ a_is_complete)
           => /\ a_pc' = "returned"
              /\ a_completion_calls' = a_completion_calls
              /\ a_result'.success
              /\ a_result'.final_result = a_final_result
              /\ a_result'.total_steps = a_total_steps
              /\ (a_total_steps = 1 => a_result'.tool_calls = 0) ]_vars

\* {"action":"complete"} without a result, on step 1.
C14_Witness ==
    /\ a_pc = "returned"
    /\ a_response.action = "complete" /\ ~a_response.result
    /\ a_result.success /\ a_result.final_result = "response"
    /\ a_result.total_steps = 1 /\ a_result.tool_calls = 0
    /\ a_tool_invocations = << >>

(***************************************************************************)
(* C15: run (no stop predicate) that reaches its step budget without a     *)
(* "complete" action returns a normal result with success = false,         *)
(* total_steps equal to the budget and the "not completed" message as      *)
(* final_result; the loop never makes more than max_steps completion calls *)
(* and every invocation terminates.                                        *)
(***************************************************************************)
C15_BudgetReachedReturnsNotCompleted ==
    /\ [](a_completion_calls <= a_max_steps /\ a_total_steps <= a_max_steps)
    /\ []( ( /\ a_pc = "returned" /\ ~a_is_complete
             /\ (a_should_stop = "never" \/ a_completion_calls = a_max_steps) )
           => /\ ~a_result.success
              /\ a_result.total_steps = a_max_steps
              /\ a_result.final_result = "Task not completed within step limit"
              /\ a_completion_calls = a_max_steps )
    /\ <>(a_pc \in {"returned", "failed", "panicked"})

\* Three steps of tool calls and text against a budget of 3.
C15_Witness ==
    /\ a_pc = "returned"
    /\ a_should_stop = "never" /\ a_max_steps = 3
    /\ ~a_result.success /\ a_result.total_steps = 3
    /\ a_completion_calls = 3 /\ a_tool_calls >= 1

(***************************************************************************)
(* C16: in run_with_stop, an iteration first increments the step counter   *)
(* and then evaluates the stop predicate on the state so updated; when the *)
(* predicate holds, the loop ends in that iteration without a completion   *)
(* call, so the completion calls number one less than total_steps.         *)
(***************************************************************************)
C16_StopPredicateSkipsCompletionCall ==
    [][ ( /\ a_pc = "loop" /\ LoopCondition
          /\ ShouldStop(a_should_stop, a_total_steps + 1, a_tool_calls) )
        => /\ a_pc' = "returned"
           /\ a_total_steps' = a_total_steps + 1
           /\ a_completion_calls' = a_completion_calls
           /\ a_completion_calls' = a_total_steps' - 1
           /\ a_result'.total_steps = a_total_steps'
           /\ a_result'.success = FALSE ]_vars

\* A tool call on step 1, then the predicate on the tool-call counter holds
\* on step 2.
C16_Witness ==
    /\ a_pc = "returned"
    /\ a_should_stop = "tool_calls_at_least_1"
    /\ a_result.total_steps = 2 /\ a_completion_calls = 1
    /\ a_max_steps = 3

C18_UnusableResponseGetsCorrectiveTurn ==
    [][ ( /\ AResponseReceived
          /\ \/ a_response'.parse \in {"not_json", "slice_panic"}
             \/ /\ a_response'.parse = "action"
                /\ a_response'.action \notin RegisteredTools \cup {"none", "complete"} )
        => /\ a_tool_invocations' = a_tool_invocations
           /\ a_tool_calls' = a_tool_calls
           /\ Len(a_conversation') = Len(a_conversation) + 2
           /\ a_conversation'[Len(a_conversation) + 1] = AssistantTurn("response")
           /\ LastOf(a_conversation').role = "user"
           /\ LastOf(a_conversation').content
                \in { "Please respond with a JSON action or mark the task as complete." }
                    \cup { "Unknown action: " \o a_response'.action
                             \o ". Available tools: " \o names : names \in ToolNameLists } ]_vars

(***************************************************************************)
(* PromptChain: what an execute invocation has done so far.                *)
(***************************************************************************)
\* The completion call of step c_k returned an output and the step's
\* validator returned false on it.
ValidatorRejected ==
    /\ c_k \in DOMAIN c_steps
    /\ c_calls # << >> /\ LastOf(c_calls) = c_k
    /\ c_current_output.call = Len(c_calls)
    /\ c_steps[c_k].validator
    /\ c_current_output.class # "valid"

\* The calls made are those of steps 1, 2, .. in this order, one each, and
\* one prompt was built per call.
CallsInRegisteredOrder ==
    /\ \A i \in DOMAIN c_calls : c_calls[i] = i
    /\ Len(c_prompts) = Len(c_calls)

(***************************************************************************)
(* C19: in PromptChain::execute, when the validator of step k returns      *)
(* false the invocation fails with a validation error naming step k, and   *)
(* no prompt is built and no completion call is made for a step after k.   *)
(***************************************************************************)
C19_ValidatorRejectionFailsFast ==
    ValidatorRejected =>
      /\ c_pc = "failed"
      /\ c_error = [kind |-> "validation", step |-> c_steps[c_k].name]
      /\ CallsInRegisteredOrder
      /\ Len(c_calls) = c_k

(***************************************************************************)
(* C20: PromptChain::execute runs the steps in their registered order with *)
(* exactly one completion call per step; after each successful step the    *)
(* post-processed output (the raw output without a processor) is in the    *)
(* context under the step's name when the next step's prompt is built, one *)
(* history record is appended per step, and the invocation returns the     *)
(* last step's output.                                                     *)
(***************************************************************************)
C20_StepsRunInOrderThroughContext ==
    /\ CallsInRegisteredOrder
    /\ Len(c_calls) <= Len(c_steps)
    /\ c_pc = "loop" => (Len(c_calls) = c_k - 1 /\ Len(c_history) = c_k - 1)
    /\ \A i \in DOMAIN c_history :
         /\ c_history[i].step = c_steps[i].name
         /\ c_history[i].prompt = c_prompts[i]
         /\ c_history[i].output.call = i
         /\ ~c_history[i].output.processed
    /\ \A i \in DOMAIN c_prompts :
         /\ c_prompts[i].step = i
         /\ i > 1 =>
              c_prompts[i].context[c_steps[i - 1].name]
                = [c_history[i - 1].output EXCEPT !.processed = c_steps[i - 1].processor]
    /\ c_pc = "returned" =>
         /\ Len(c_calls) = Len(c_steps)
         /\ Len(c_history) = Len(c_steps)
         /\ c_steps # << >> => c_result = LastOf(c_history).output
         /\ c_steps # << >> =>
              c_context[LastOf(c_steps).name]
                = [c_result EXCEPT !.processed = LastOf(c_steps).processor]

\* Three steps, the first and last under the same name, the first with a
\* processor.
C20_Witness ==
    /\ c_pc = "returned"
    /\ Len(c_steps) = 3
    /\ c_steps[1].processor /\ ~c_steps[2].processor
    /\ c_steps[1].name = c_steps[3].name /\ c_steps[2].name # c_steps[1].name
    /\ c_result.call = 3
    /\ c_prompts[2].context[c_steps[1].name].processed

(***************************************************************************)
(* Orchestrator::execute: the loop over sorted_subtasks as a history.      *)
(***************************************************************************)
\* The ids of the nodes whose worker failed before the k-th node was run.
OFailedBefore(k) ==
    { o_worker_results[j].subtask_id :
        j \in { i \in DOMAIN o_worker_results : i < k /\ ~o_worker_results[i].success } }

\* The ids of the nodes whose worker returned Ok.
OSucceeded ==
    { o_worker_results[j].subtask_id :
        j \in { i \in DOMAIN o_worker_results : o_worker_results[i].success } }

\* decompose_task returned Ok.
ODecomposed ==
    /\ o_pc # "decompose"
    /\ ~(o_pc = "failed" /\ o_error.kind = "completion" /\ o_synth_calls = 0)

(***************************************************************************)
(* C22: a worker failure on one node does not abort Orchestrator.execute:  *)
(* the node is recorded with success = false, the nodes after it in the    *)
(* order are still executed (the invocation ends only after every node was *)
(* run and synthesis was called), and a node run after a failed node never *)
(* has that node among its dependency results.                             *)
(***************************************************************************)
C22_WorkerFailureDoesNotAbort ==
    /\ Len(o_calls) = Len(o_worker_results)
    /\ \A k \in DOMAIN o_calls :
         /\ o_calls[k].id = o_sorted[k].id
         /\ o_worker_results[k].subtask_id = o_sorted[k].id
         /\ o_calls[k].dep_results \cap OFailedBefore(k) = {}
    /\ (\E j \in DOMAIN o_worker_results : ~o_worker_results[j].success) =>
         /\ o_pc \in {"execute", "returned", "failed"}
         /\ o_pc \in {"returned", "failed"} =>
              /\ Len(o_worker_results) = Len(o_sorted)
              /\ o_synth_calls = 1

\* A node failed, a later node that declares it as a dependency was run and
\* succeeded, and execute returned.
C22_Witness ==
    /\ o_pc = "returned"
    /\ \E j, k \in DOMAIN o_worker_results :
         /\ j < k
         /\ ~o_worker_results[j].success
         /\ o_worker_results[j].subtask_id \in Range(o_sorted[k].dependencies)
         /\ o_worker_results[k].success

(***************************************************************************)
(* C23: the synthesis call is issued at most once, exactly once when       *)
(* execute returns, only after every node of the sorted graph was          *)
(* attempted, and the results handed to it are exactly those of the nodes  *)
(* whose worker succeeded.                                                 *)
(***************************************************************************)
C23_SynthesisOnceAfterAllNodes ==
    /\ o_synth_calls <= 1
    /\ o_pc = "returned" => o_synth_calls = 1
    /\ o_synth_calls = 0 => o_synth_results = {}
    /\ o_synth_calls = 1 =>
         /\ Len(o_worker_results) = Len(o_sorted)
         /\ o_synth_results = OSucceeded

\* Three nodes were run, one of them failed, and synthesis combined the two
\* others.
C23_Witness ==
    /\ o_pc = "returned"
    /\ Len(o_sorted) = 3
    /\ Cardinality(OFailedBefore(4)) = 1
    /\ Cardinality(o_synth_results) = 2

(***************************************************************************)
(* C24: when the decomposition response does not decode to a task graph,   *)
(* decompose_task still returns: the graph is one node "main" without      *)
(* dependencies, tagged with a registered worker type, or with "general"   *)
(* when no worker is registered, and the sort of it does not fail.         *)
(***************************************************************************)
C24_UndecodableDecompositionFallsBack ==
    (ODecomposed /\ ~o_response.decodes) =>
       /\ Len(o_subtasks) = 1
       /\ o_subtasks[1].id = "main"
       /\ o_subtasks[1].dependencies = << >>
       /\ o_subtasks[1].worker_type \in
            (IF o_workers = {} THEN {"general"} ELSE o_workers)
       /\ o_error.kind # "circular"
       /\ o_pc # "sort" => o_sorted = o_subtasks

\* Two workers are registered, the response did not decode, the single node
\* was tagged with one of them and run by that worker.
C24_Witness ==
    /\ o_pc = "returned"
    /\ ~o_response.decodes
    /\ o_workers = WorkerTypes
    /\ o_subtasks[1].worker_type = "writer"
    /\ Len(o_calls) = 1 /\ o_calls[1].worker = "registered"

(***************************************************************************)
(* C26: sibling nodes are dispatched as concurrent units of work: by the   *)
(* time a node's worker finishes, every node that was ready when it was    *)
(* dispatched (all its dependencies in the graph attempted) has been       *)
(* dispatched too.                                                         *)
(***************************************************************************)
\* The positions of the nodes not yet dispatched whose dependencies have
\* all been attempted.
OReady ==
    { k \in DOMAIN o_sorted :
        /\ k > Len(o_calls)
        /\ (Range(o_sorted[k].dependencies) \cap IdsOf(o_sorted))
             \subseteq { o_worker_results[j].subtask_id : j \in DOMAIN o_worker_results } }

C26_SiblingNodesInFlightTogether ==
    [][ Len(o_worker_results') > Len(o_worker_results) =>
          \A k \in OReady :
             \E c \in DOMAIN o_calls' : o_calls'[c].id = o_sorted[k].id ]_vars

(***************************************************************************)
(* C21: every invocation starts from fresh execution state: whatever       *)
(* invocations came before on the same PromptChain, EvaluatorOptimizer or  *)
(* AutonomousAgent, the history and the counters the instance shows when   *)
(* an invocation has ended hold only what that invocation produced.        *)
(***************************************************************************)
C21_InvocationStartsFresh ==
    /\ c_pc \in {"returned", "failed"} =>
         /\ Len(c_history) <= Len(c_calls)
         /\ \A i \in DOMAIN c_history :
              /\ c_history[i].step = c_steps[c_calls[i]].name
              /\ c_history[i].prompt = c_prompts[i]
    /\ e_pc \in {"returned", "failed"} =>
         /\ Len(e_history) <= e_eval_calls
         /\ \A i \in DOMAIN e_history : e_history[i].iteration = i
    /\ a_pc \in {"returned", "failed"} =>
         /\ a_total_steps <= a_completion_calls + 1
         /\ a_tool_calls = Len(a_tool_invocations)
         /\ \A i \in DOMAIN a_action_history : a_action_history[i].step <= a_total_steps

(***************************************************************************)
(* C25: a fan-out invocation (execute_parallel, vote, safety_vote,         *)
(* execute_with_guardrails) has returned to its caller, with a value or    *)
(* with an error, only when every unit it spawned has finished.            *)
(***************************************************************************)
C25_ReturnsAfterEveryUnitFinished ==
    /\ f_pc = "returned" => \A i \in DOMAIN f_handles : f_handles[i].done
    /\ v_pc = "returned" => \A i \in DOMAIN v_handles : v_handles[i].done
    /\ s_pc = "returned" => \A i \in DOMAIN s_handles : s_handles[i].done
    /\ g_pc \in {"returned", "failed"} =>
         /\ g_main.done
         /\ \A i \in DOMAIN g_handles : g_handles[i].done

(***************************************************************************)
(* C28: in optimize, the first generation call is built from the task      *)
(* alone, and the generation call of every iteration i > 1 is built from   *)
(* the task, the output of iteration i-1 and the feedback of evaluation    *)
(* i-1.                                                                    *)
(***************************************************************************)
C28_RefinementUsesPreviousIteration ==
    \A i \in DOMAIN e_gen_calls :
       IF i = 1
         THEN e_gen_calls[i].kind = "initial"
         ELSE /\ e_gen_calls[i].kind = "refine"
              /\ e_gen_calls[i].previous_output = e_history[i - 1].output
              /\ e_gen_calls[i].feedback = e_history[i - 1].evaluation.feedback

(***************************************************************************)
(* C29: a classifier response without a parseable confidence does not     *)
(* make Router::route fail on the parse: the confidence used is 0.5, so    *)
(* the input takes the low-confidence path exactly when the threshold is   *)
(* above 0.5 and is dispatched as usual otherwise; a response with a       *)
(* parseable confidence is used with that value.                           *)
(***************************************************************************)
C29_UnparseableConfidenceDefaultsToHalf ==
    RClassified =>
       /\ r_classification.confidence =
            (IF r_response.confidence = NoConfidence THEN 50 ELSE r_response.confidence)
       /\ (r_response.confidence = NoConfidence /\ r_threshold > 50) =>
            /\ RouteHandlersInvoked = {}
            /\ IF r_fallback
                 THEN r_invoked = << "fallback" >>
                 ELSE r_pc = "failed" /\ r_error.kind = "low_confidence"
       /\ (r_response.confidence = NoConfidence /\ r_threshold <= 50) =>
            /\ r_error.kind # "low_confidence"
            /\ r_classification.category \in r_routes =>
                 r_invoked = << r_classification.category >>
            /\ (r_classification.category \notin r_routes /\ ~r_fallback) =>
                 r_pc = "failed" /\ r_error.kind = "no_handler"

\* A response without a confidence, threshold 0.5, the category registered
\* and a fallback set: the route's handler was invoked and route returned.
C29_Witness ==
    /\ r_pc = "returned"
    /\ r_response.confidence = NoConfidence
    /\ r_threshold = 50
    /\ r_fallback
    /\ r_invoked = << r_classification.category >>
    /\ r_classification.category \in r_routes

(***************************************************************************)
(* C30: execute_parallel returns the outcomes in submission order: the     *)
(* i-th returned entry carries the name of the i-th submitted subtask,     *)
(* whatever order the units finished in.                                   *)
(***************************************************************************)
C30_OutcomesInSubmissionOrder ==
    f_pc = "returned" =>
       /\ Len(f_returned) = Len(f_subtasks)
       /\ \A i \in DOMAIN f_returned : f_returned[i].name = f_subtasks[i]

\* Three subtasks, the last submitted finished first and the first
\* submitted, which has another name, finished last.
C30_Witness ==
    /\ f_pc = "returned"
    /\ Len(f_subtasks) = 3
    /\ f_subtasks[1] # f_subtasks[3]
    /\ f_finish_order = << 3, 2, 1 >>

(***************************************************************************)
(* C27: in the sequential strategies (PromptChain::execute,                *)
(* EvaluatorOptimizer::optimize, Router::route, AutonomousAgent::run), a   *)
(* failed completion call ends the invocation with an error at that        *)
(* point: the invocation is in its failed state, and from then on no step  *)
(* is taken, so the call is not retried and no further completion call,    *)
(* handler or tool is invoked.                                             *)
(***************************************************************************)
\* A completion call of the invocation has failed.
CompletionCallFailed ==
    \/ c_error.kind = "client"
    \/ e_error = "completion"
    \/ r_error.kind = "classify"
    \/ a_error = "completion"

C27_CompletionFailureEndsInvocation ==
    /\ [](/\ c_error.kind = "client" =>
               /\ c_pc = "failed"
               /\ c_calls[Len(c_calls)] = Len(c_history) + 1
               /\ \A i \in 1..(Len(c_calls) - 1) : c_calls[i] = i
          /\ e_error = "completion" =>
               /\ e_pc = "failed"
               /\ Len(e_gen_calls) + e_eval_calls = 2 * Len(e_history) + 1
                    + (IF Len(e_gen_calls) > e_eval_calls THEN 0 ELSE 1)
          /\ r_error.kind = "classify" => r_pc = "failed" /\ r_invoked = << >>
          /\ a_error = "completion" =>
               /\ a_pc = "failed"
               /\ a_completion_calls = a_total_steps)
    /\ [][~CompletionCallFailed]_vars

\* The second completion call of a three-step chain failed.
C27_Witness ==
    /\ c_pc = "failed"
    /\ c_error.kind = "client"
    /\ Len(c_steps) = 3
    /\ c_calls = << 1, 2 >>
    /\ Len(c_history) = 1

(***************************************************************************)
(* C31 as stated: the winning_index vote returns is an option whose count  *)
(* is at least the count of every other option; when no valid vote is cast *)
(* the result is winning_index = 0 with the first option reported as       *)
(* winner, total_votes = 0 and consensus = false.                          *)
(***************************************************************************)
C31_Original_PluralityWinner ==
    v_pc = "returned" =>
      /\ \A k \in 1..v_option_count :
           CastFor(v_result.winning_index + 1) >= CastFor(k)
      /\ CastTotal = 0 =>
           /\ v_result.winning_index = 0
           /\ v_result.winning_option = 0
           /\ v_result.total_votes = 0
           /\ ~v_result.consensus

(***************************************************************************)
(* C31 amended: as above, where the first option is reported as winner of  *)
(* a vote without valid votes only when there is an option; over an empty  *)
(* list of options the winner reported is the default (empty) text.        *)
(***************************************************************************)
C31_PluralityWinner ==
    v_pc = "returned" =>
      /\ \A k \in 1..v_option_count :
           CastFor(v_result.winning_index + 1) >= CastFor(k)
      /\ CastTotal > 0 =>
           /\ v_result.winning_index \in 0..(v_option_count - 1)
           /\ v_result.winning_option = v_result.winning_index
      /\ CastTotal = 0 =>
           /\ v_result.winning_index = 0
           /\ v_result.winning_option = (IF v_option_count > 0 THEN 0 ELSE NoVote)
           /\ v_result.total_votes = 0
           /\ ~v_result.consensus

\* Votes [2,2,1] over two options: the second option wins.
C31_Witness ==
    /\ v_pc = "returned"
    /\ v_option_count = 2 /\ Len(v_handles) = 3
    /\ CastFor(1) = 1 /\ CastFor(2) = 2
    /\ v_result.winning_index = 1

(***************************************************************************)
(* C32: safety_vote returns is_safe = true only if every one of the        *)
(* voter_count voters answered safe, a voter whose completion call failed  *)
(* counting as unsafe; safe_votes + unsafe_votes = voter_count; unanimous  *)
(* is true exactly when all voters answered safe or all answered unsafe,   *)
(* so is_safe implies unanimous.                                           *)
(***************************************************************************)
\* The voters whose completion returned a text holding SAFE and not UNSAFE.
AnsweredSafe ==
    { i \in DOMAIN s_handles :
        /\ s_handles[i].response.kind = "ok"
        /\ s_handles[i].response.text \in {"SAFE", "safe"} }

C32_SafetyVoteUnanimity ==
    s_pc = "returned" =>
      /\ s_result.is_safe => AnsweredSafe = DOMAIN s_handles
      /\ s_result.safe_votes = Cardinality(AnsweredSafe)
      /\ s_result.safe_votes + s_result.unsafe_votes = Len(s_handles)
      /\ s_result.unanimous <=>
           (AnsweredSafe = DOMAIN s_handles \/ AnsweredSafe = {})
      /\ s_result.is_safe => s_result.unanimous

\* Three voters: two answered SAFE and the call of the third failed.
C32_Witness ==
    /\ s_pc = "returned"
    /\ Len(s_handles) = 3
    /\ Cardinality(AnsweredSafe) = 2
    /\ \E i \in DOMAIN s_handles : s_handles[i].response.kind = "err"
    /\ ~s_result.is_safe /\ ~s_result.unanimous

(***************************************************************************)
(* C33: when the primary task's completion call fails,                     *)
(* execute_with_guardrails returns an error for the whole invocation       *)
(* whatever the checks answered, and no GuardrailedResult (no blocked      *)
(* flag, no list of failing checks) is produced.                           *)
(***************************************************************************)
C33_PrimaryFailureFailsInvocation ==
    /\ (g_main.done /\ ~g_main.call_ok) =>
         /\ g_pc \in {"await_main", "failed"}
         /\ g_result = NoGuardrailedResult
    /\ g_pc = "failed" => (g_main.done /\ ~g_main.call_ok)
    /\ g_pc \in {"join", "returned"} => (g_main.done /\ g_main.call_ok)

\* The primary failed although both checks had finished and passed.
C33_Witness ==
    /\ g_pc = "failed"
    /\ Len(g_handles) = 2
    /\ \A i \in DOMAIN g_handles : g_handles[i].done /\ g_handles[i].out.passed

(***************************************************************************)
(* The action history of the agent, read as a sequence of records.         *)
(***************************************************************************)
ToolCallRecords ==
    { i \in DOMAIN a_action_history : a_action_history[i].action_type = "tool_call" }

\* s is an initial part of t.
IsPrefix(s, t) == Len(s) <= Len(t) /\ \A i \in DOMAIN s : s[i] = t[i]

C35_ConversationAlternates ==
    a_pc \in {"loop", "returned", "failed", "panicked"} =>
       /\ Len(a_conversation) % 2 = 1
       /\ a_conversation[1] = UserTurn("Task: " \o "task")
       /\ \A i \in DOMAIN a_conversation :
            a_conversation[i].role = (IF i % 2 = 1 THEN "user" ELSE "assistant")

\* The third completion call is about to be made, after a tool call and an
\* unknown action.
C35_Witness ==
    /\ a_pc = "loop"
    /\ a_completion_calls = 2 /\ a_max_steps = 3
    /\ Len(a_conversation) = 5
    /\ a_tool_calls = 1
    /\ a_response.action = "lookup"

(***************************************************************************)
(* C36: a response that parses as an action object without an action       *)
(* leaves the conversation unchanged and adds at most a thought record, so *)
(* the next completion call gets the same conversation; a run (no stop     *)
(* predicate) in which every response was of this kind makes max_steps     *)
(* completion calls and returns success = false.                           *)
(***************************************************************************)
C36_ActionlessResponseBurnsBudget ==
    /\ [][ ( /\ AResponseReceived
             /\ a_response'.parse = "action" /\ a_response'.action = "none" )
           => /\ a_conversation' = a_conversation
              /\ a_pc' = "loop"
              /\ a_action_history' = WithThought(a_action_history, a_response', a_total_steps')
              /\ UNCHANGED << a_tool_calls, a_tool_invocations, a_is_complete,
                              a_final_result >> ]_vars
    /\ []( ( /\ a_pc = "returned" /\ a_should_stop = "never"
             /\ ~a_is_complete /\ Len(a_conversation) = 1 )
           => /\ a_completion_calls = a_max_steps
              /\ a_total_steps = a_max_steps
              /\ ~a_result.success )

\* Three action-less responses, the last one with a thought, against a
\* budget of three steps.
C36_Witness ==
    /\ a_pc = "returned"
    /\ a_should_stop = "never"
    /\ a_max_steps = 3 /\ a_completion_calls = 3
    /\ Len(a_conversation) = 1
    /\ a_response.parse = "action" /\ a_response.action = "none" /\ a_response.thought
    /\ ~a_result.success

(***************************************************************************)
(* C37: in every reachable state of a run, the completion flag is set iff  *)
(* the final-result slot is filled; no completion call and no tool         *)
(* invocation happens once the flag is set; and a tool registered under    *)
(* the reserved name "complete" is never invoked.                          *)
(***************************************************************************)
C37_CompletionFlagIsFinal ==
    /\ [](/\ a_is_complete <=> (a_final_result # "none")
          /\ \A i \in DOMAIN a_tool_invocations : a_tool_invocations[i].name # "complete")
    /\ [][ a_is_complete =>
             /\ a_completion_calls' = a_completion_calls
             /\ a_tool_invocations' = a_tool_invocations
             /\ a_is_complete' ]_vars

\* A tool call on step 1 and "complete" on step 2 of a budget of 3, with a
\* tool registered as "complete": the run returned after two calls.
C37_Witness ==
    /\ a_pc = "returned"
    /\ a_is_complete
    /\ a_max_steps = 3 /\ a_completion_calls = 2
    /\ Len(a_tool_invocations) = 1
    /\ "complete" \in RegisteredTools

(***************************************************************************)
(* C38: for a task graph without a cycle, execute runs each distinct node  *)
(* id exactly once (one node for an id that is repeated), a declared       *)
(* dependency on an id that is not in the graph is ignored rather than     *)
(* reported (no error, no entry in the dependency results), and            *)
(* worker_results has one entry per executed node, in execution order.     *)
(***************************************************************************)
C38_EachIdExecutedOnce ==
    (ODecomposed /\ o_pc # "sort" /\ ~HasCycle(o_subtasks)) =>
       /\ o_error.kind # "circular"
       /\ \A j, k \in DOMAIN o_calls : j # k => o_calls[j].id # o_calls[k].id
       /\ \A k \in DOMAIN o_calls : o_calls[k].dep_results \subseteq IdsOf(o_subtasks)
       /\ Len(o_worker_results) = Len(o_calls)
       /\ \A k \in DOMAIN o_calls : o_worker_results[k].subtask_id = o_calls[k].id
       /\ OAllAttempted =>
            /\ { o_calls[k].id : k \in DOMAIN o_calls } = IdsOf(o_subtasks)
            /\ Len(o_calls) = Cardinality(IdsOf(o_subtasks))

\* Three subtasks over two ids, one of them depending on an id that is not
\* in the graph: two nodes were run and execute returned.
C38_Witness ==
    /\ o_pc = "returned"
    /\ Len(o_subtasks) = 3 /\ Cardinality(IdsOf(o_subtasks)) = 2
    /\ ~HasCycle(o_subtasks)
    /\ \E i \in DOMAIN o_sorted : ~(Range(o_sorted[i].dependencies) \subseteq IdsOf(o_subtasks))
    /\ Len(o_worker_results) = 2


\* The step of the iteration under way fails: its completion call returns
\* an error, or its validator rejects the output.
CStepFails == c_pc = "loop" /\ c_pc' \in {"failed", "panicked"}

(***************************************************************************)
(* C39: when step k of PromptChain::execute fails (the completion call     *)
(* returns an error or the validator returns false), step k adds no entry  *)
(* to the context and no record to the history; the history gains exactly  *)
(* one record per step that passed validation, in step order, and each     *)
(* record holds the raw output, not the processed one.                     *)
(***************************************************************************)
C39_FailedStepLeavesNoTrace ==
    /\ [][CStepFails => (c_context' = c_context /\ c_history' = c_history)]_vars
    /\ [][c_history' # c_history =>
            /\ c_pc = "loop" /\ c_pc' = "loop" /\ c_k' = c_k + 1
            /\ c_steps[c_k].validator => c_current_output'.class = "valid"
            /\ c_history' = Append(c_history,
                                   [step |-> c_steps[c_k].name,
                                    prompt |-> LastOf(c_prompts'),
                                    output |-> c_current_output'])
            /\ c_current_output' = ChainText(Len(c_calls'), c_current_output'.class, FALSE)]_vars
    /\ [](c_pc \in {"loop", "failed", "panicked", "returned"} =>
            /\ Len(c_history) = c_k - 1
            /\ \A i \in DOMAIN c_history :
                 /\ c_history[i].step = c_steps[i].name
                 /\ c_history[i].output.call = i
                 /\ ~c_history[i].output.processed
                 /\ c_steps[i].validator => c_history[i].output.class = "valid"
            /\ c_pc \in {"failed", "panicked"} =>
                 /\ Len(c_calls) = Len(c_history) + 1
                 /\ \A key \in ContextKeys :
                      (\A i \in DOMAIN c_history : c_history[i].step # key)
                         => c_context[key] = InitialContext[key])

\* Three steps with processors: the first two pass and the third, the only
\* one under its name, is rejected by its validator; its name is not in the
\* context and the history holds the two raw outputs.
C39_Witness ==
    /\ c_pc = "failed" /\ c_error.kind = "validation"
    /\ Len(c_steps) = 3 /\ c_k = 3
    /\ c_steps[1].processor /\ c_steps[2].processor
    /\ c_steps[3].name \notin {c_steps[1].name, c_steps[2].name}
    /\ Len(c_history) = 2
    /\ c_context[c_steps[3].name] = Absent
    /\ c_context[c_steps[1].name].processed


\* The recorded attempts whose confidence is at least the threshold.
AttemptsMeeting == { i \in DOMAIN k_attempts : k_attempts[i].confidence >= k_threshold }

\* The highest confidence among the recorded attempts, 0 without attempts.
HighestConfidence == Max({0} \cup { k_attempts[i].confidence : i \in DOMAIN k_attempts })

(***************************************************************************)
(* C40: generate_with_confidence, when no completion call fails, returns   *)
(* at the first attempt whose confidence is at least the threshold, with   *)
(* met_threshold = true and that attempt's output; otherwise it returns    *)
(* after max_attempts attempts with met_threshold = false, the highest     *)
(* confidence seen and the output of the earliest attempt having that      *)
(* confidence, which is the empty output with confidence 0 when every      *)
(* attempt reported confidence 0 or max_attempts = 0. A response without a *)
(* parseable confidence counts as 0.5.                                     *)
(***************************************************************************)
C40_FirstConfidentOrEarliestBest ==
    /\ Len(k_responses) = Len(k_attempts)
    /\ \A i \in DOMAIN k_attempts :
         /\ k_attempts[i].attempt = i
         /\ k_attempts[i].output = k_responses[i].body
         /\ k_responses[i].marker.kind # "number" => k_attempts[i].confidence = 50
    /\ k_pc = "awaiting" =>
         /\ AttemptsMeeting = {}
         /\ Len(k_attempts) < k_max_attempts
         /\ Len(k_calls) = Len(k_attempts) + 1
    /\ k_pc = "returned" =>
         /\ k_result.attempts = k_attempts
         /\ Len(k_calls) = Len(k_attempts)
         /\ IF AttemptsMeeting # {}
              THEN /\ AttemptsMeeting = { Len(k_attempts) }
                   /\ k_result.met_threshold
                   /\ k_result.output = LastOf(k_attempts).output
                   /\ k_result.confidence = LastOf(k_attempts).confidence
              ELSE /\ Len(k_attempts) = k_max_attempts
                   /\ ~k_result.met_threshold
                   /\ k_result.confidence = HighestConfidence
                   /\ IF HighestConfidence = 0
                        THEN k_result.output = EmptyText
                        ELSE \E earliest \in DOMAIN k_attempts :
                               /\ k_attempts[earliest].confidence = HighestConfidence
                               /\ \A j \in 1..(earliest - 1) :
                                    k_attempts[j].confidence < HighestConfidence
                               /\ k_result.output = k_attempts[earliest].output

\* Three attempts under a threshold none meets: the first without a
\* confidence, the other two with the same higher one; the second's output
\* is returned.
C40_Witness ==
    /\ k_pc = "returned" /\ k_max_attempts = 3 /\ Len(k_attempts) = 3
    /\ ~k_result.met_threshold
    /\ k_responses[1].marker.kind = "none"
    /\ k_attempts[2].confidence = 80 /\ k_attempts[3].confidence = 80
    /\ k_result.confidence = 80
    /\ k_result.output = k_attempts[2].output
    /\ k_result.output # k_attempts[3].output

=============================================================================
